---------------------------- MODULE Spec2Model ----------------------------
(***************************************************************************)
(* A model of the physical-design back-end: the Nesterov global placer,    *)
(* the Abacus legaliser, the A* kernel, the detailed router's rip-up loop  *)
(* with segment extraction, and the post-route verifier.                   *)
(*                                                                         *)
(* Lengths are integers: one world unit (1.0) is Unit = 720 model units,   *)
(* so that the cell padding 0.05 is 36 units and the cluster positions     *)
(* q / weight of up to three cells are whole numbers.  The tolerances      *)
(* 0.001 (0.72 units) and 0.005 (3.6 units) fall strictly between two      *)
(* whole numbers, so a comparison against "b + 0.001" is a comparison      *)
(* against b with the strictness the tolerance decides.                    *)
(***************************************************************************)
EXTENDS Integers, Sequences, FiniteSets, TLC

VARIABLES
    die_area,       \* NetlistDB.die_area: [min_x, min_y, max_x, max_y]
    cells,          \* NetlistDB.cells: sequence of [name, width, height, is_fixed]
    positions,      \* NetlistDB.positions: sequence of [x, y] (lower-left corners)
    nets,           \* NetlistDB.nets: sequence of pin sequences, a pin is [cell, off_x, off_y]
    leg_runs,       \* number of completed AbacusLegalizer::legalize calls
    leg_before,     \* positions on entry to the latest legalize call
    leg_row_height, \* row_height the latest legalize call computed
    nes_pc,         \* NesterovOptimizer::optimize: "idle", "running", "returned", "panicked"
    nes_iters,      \* loop bodies of optimize executed so far
    nes_late,       \* the loop index k is beyond 500
    x_k,            \* NesterovOptimizer.x_k
    x_prev,         \* NesterovOptimizer.x_prev
    y_k,            \* NesterovOptimizer.y_k
    nes_entry,      \* positions on entry to optimize
    nes_raw,        \* the latest value of each cell's position before clamping
    nes_threshold,  \* params.convergence_threshold
    nes_result,     \* the value optimize returned: "none" or "Ok"
    route_segments, \* NetData.route_segments of every net: [p1, p2, layer], in nm
    ver_result,     \* what check_shorts_and_loops returned: "none", "Ok" or an error
    ver_runs,       \* what each call of check::run returned: the messages of its Err
    db_layers,      \* NetlistDB.layers: the preferred direction of each layer, "H" or "V"
    grid,           \* DenseGrid: width, height, layers, obstacles, cost_cache
    call,           \* the arguments of the running AStar::find_path call
    heap,           \* find_path's BinaryHeap of State records
    g_score,        \* AStar.g_score on the nodes whose visited_tag is current
    parents,        \* AStar.parents on the same nodes
    expansions,     \* find_path's expansion counter
    as_pc,          \* find_path: "idle", "call", "loop" or "done"
    as_result,      \* what find_path returned: [kind |-> "None"] or a path
    dr_config,      \* DetailedRoutingConfig
    guides,         \* the guides of every net, as the global router hands them over
    net_paths,      \* detailed_router::run: the occupied nodes of every net
    net_topologies, \* detailed_router::run: the paths of every net
    ripup_counts,   \* detailed_router::run: how often each net was ripped up
    dr,             \* detailed_router::run: its position and the rip-up loop's locals
    rn,             \* route_net_dr_pure: its arguments and locals
    flow,           \* main, Commands::Flow: its position, the stages run, its outcome
    wl,             \* compute_wa_gradient: gamma, and what it computed
    gr,             \* global_router::run: its position and its locals
    solver,         \* an AStar instance kept over several find_path calls
    oracle,         \* a FastGuideOracle kept over several prepare calls
    spatial,        \* the SpatialSet of detailed_router::run and its batching loop
    extract,        \* generate_segments_from_topology: its position and its locals
    chk             \* check_shorts_and_loops or check_opens: its workers, flag and message

dbVars  == <<die_area, cells, nets>>
legVars == <<leg_runs, leg_before, leg_row_height>>
nesVars == <<nes_pc, nes_iters, nes_late, x_k, x_prev, y_k, nes_entry, nes_raw,
             nes_threshold, nes_result>>
verVars == <<route_segments, ver_result, ver_runs>>
asVars  == <<db_layers, grid, call, heap, g_score, parents, expansions, as_pc,
             as_result>>
drVars  == <<dr_config, guides, net_paths, net_topologies, ripup_counts, dr, rn>>
vars    == <<die_area, cells, positions, nets, leg_runs, leg_before, leg_row_height,
             nes_pc, nes_iters, nes_late, x_k, x_prev, y_k, nes_entry, nes_raw,
             nes_threshold, nes_result, route_segments, ver_result, ver_runs,
             db_layers, grid, call, heap, g_score, parents, expansions, as_pc,
             as_result, dr_config, guides, net_paths, net_topologies, ripup_counts,
             dr, rn, flow, wl, gr, solver, oracle, spatial, extract, chk>>

\* What each part of the flow leaves alone
legRest == <<nesVars, verVars, asVars, drVars, flow, wl, gr, solver, oracle, spatial, extract, chk>>
nesRest == <<legVars, verVars, asVars, drVars, flow, wl, gr, solver, oracle, spatial, extract, chk>>
verRest == <<positions, legVars, nesVars, asVars, drVars, flow, wl, gr, solver, oracle, spatial, extract, chk>>
asRest  == <<dbVars, positions, legVars, nesVars, verVars, drVars, flow, wl, gr, solver, oracle, spatial, extract, chk>>
drRest  == <<dbVars, positions, legVars, nesVars, ver_result, ver_runs, db_layers,
             dr_config, guides, flow, wl, gr, solver, oracle, spatial, extract, chk>>

----------------------------------------------------------------------------
(* Arithmetic helpers *)

Unit == 36 * 20

Max(a, b) == IF a >= b THEN a ELSE b
Min(a, b) == IF a <= b THEN a ELSE b
Abs(a)    == IF a >= 0 THEN a ELSE -a

\* f64::clamp(lo, hi)
Clamp(v, lo, hi) == IF v < lo THEN lo ELSE IF v > hi THEN hi ELSE v

\* (a / b).floor() and (a / b).ceil() for b > 0
FloorDiv(a, b) == a \div b
CeilDiv(a, b)  == -((-a) \div b)

\* (a / b).round() for b > 0: f64::round rounds half away from zero
RoundDiv(a, b) ==
    IF a >= 0 THEN (2 * a + b) \div (2 * b)
    ELSE -((2 * (-a) + b) \div (2 * b))

Range(s) == {s[i] : i \in DOMAIN s}

SetMin(S) == CHOOSE m \in S : \A e \in S : m <= e
SetMax(S) == CHOOSE m \in S : \A e \in S : m >= e

RECURSIVE SeqSum(_)
SeqSum(s) == IF s = <<>> THEN 0 ELSE Head(s) + SeqSum(Tail(s))

\* Lexicographic order on the two-component sort keys
KeyLess(a, b) == a[1] < b[1] \/ (a[1] = b[1] /\ a[2] < b[2])

\* Vec::sort_by is a stable sort: e goes after every element that is not greater
RECURSIVE InsertByKey(_, _, _)
InsertByKey(s, e, key) ==
    IF s = <<>> THEN <<e>>
    ELSE IF KeyLess(key[e], key[Head(s)]) THEN <<e>> \o s
    ELSE <<Head(s)>> \o InsertByKey(Tail(s), e, key)

RECURSIVE SortByKey(_, _)
SortByKey(s, key) ==
    IF s = <<>> THEN <<>>
    ELSE InsertByKey(SortByKey(SubSeq(s, 1, Len(s) - 1), key), s[Len(s)], key)

\* The indices 1..n that lie in keep, in increasing order
RECURSIVE FilterIdx(_, _, _)
FilterIdx(n, i, keep) ==
    IF i > n THEN <<>>
    ELSE (IF i \in keep THEN <<i>> ELSE <<>>) \o FilterIdx(n, i + 1, keep)

----------------------------------------------------------------------------
(* The Abacus legaliser: AbacusLegalizer::legalize *)

CELL_PADDING == 36
SEARCH_RADIUS == 50

NumCells == Len(cells)

\* h_key = (cell.height * 1000.0).round() as i32
HeightKey(h) == RoundDiv(h * 1000, Unit)

\* The candidates for row_height: max_by_key over a HashMap returns one of the
\* keys with the largest count, which one depends on the map's iteration order.
RowHeightChoices ==
    LET counted == {i \in 1..NumCells : cells[i].height >= 1}
        keys    == {HeightKey(cells[i].height) : i \in counted}
        count(k) == Cardinality({i \in counted : HeightKey(cells[i].height) = k})
        best    == {k \in keys : \A k2 \in keys : count(k2) <= count(k)}
    IN  IF keys = {} THEN {Unit}
        ELSE {(k * Unit) \div 1000 : k \in best}

\* is_macro = |h| h > row_height * 1.5
IsMacroHeight(h, row_height) == 2 * h > 3 * row_height

RectOf(pos, c) ==
    [min_x |-> pos.x, min_y |-> pos.y,
     max_x |-> pos.x + c.width, max_y |-> pos.y + c.height]

\* movable_macros, sorted by x
MovableMacros(pos, row_height) ==
    LET idx == FilterIdx(NumCells, 1,
                 {i \in 1..NumCells : ~cells[i].is_fixed
                                      /\ IsMacroHeight(cells[i].height, row_height)})
    IN  SortByKey(idx, [i \in 1..NumCells |-> <<pos[i].x, 0>>])

\* A movable macro is snapped to the nearest row boundary and clamped into the die
SnapMacro(p, c, row_height) ==
    LET ideal_row == RoundDiv(p.y - die_area.min_y, row_height)
        y1 == die_area.min_y + ideal_row * row_height
    IN  [x |-> Clamp(p.x, die_area.min_x, die_area.max_x - c.width),
         y |-> Clamp(y1, die_area.min_y, die_area.max_y - c.height)]

PositionsAfterMacros(pos, row_height) ==
    [i \in 1..NumCells |->
        IF ~cells[i].is_fixed /\ IsMacroHeight(cells[i].height, row_height)
        THEN SnapMacro(pos[i], cells[i], row_height)
        ELSE pos[i]]

\* fixed_rects: the fixed cells in index order, then the snapped movable macros
FixedRects(pos, row_height) ==
    LET fixedIdx == FilterIdx(NumCells, 1, {i \in 1..NumCells : cells[i].is_fixed})
        macros   == MovableMacros(pos, row_height)
        after    == PositionsAfterMacros(pos, row_height)
    IN  [k \in 1..Len(fixedIdx) |-> RectOf(pos[fixedIdx[k]], cells[fixedIdx[k]])]
        \o [k \in 1..Len(macros) |-> RectOf(after[macros[k]], cells[macros[k]])]

NumRows(row_height) == Max(0, CeilDiv(die_area.max_y - die_area.min_y, row_height))

\* row_blockages[r]: the x intervals of the rectangles that reach row r (0-based).
\* end_row = ((rect.max.y - 0.001 - die_min_y) / row_height).floor()
RECURSIVE RowBlockages(_, _, _)
RowBlockages(rects, r, row_height) ==
    IF rects = <<>> THEN <<>>
    ELSE LET rect == Head(rects)
             start_row == FloorDiv(rect.min_y - die_area.min_y, row_height)
             end_row   == FloorDiv(rect.max_y - 1 - die_area.min_y, row_height)
         IN  (IF start_row <= r /\ r <= end_row
              THEN <<<<rect.min_x, rect.max_x>>>> ELSE <<>>)
             \o RowBlockages(Tail(rects), r, row_height)

\* Merge the sorted intervals: next joins curr when next.0 < curr.1 + 0.001
RECURSIVE MergeBlockages(_, _)
MergeBlockages(curr, rest) ==
    IF rest = <<>> THEN <<curr>>
    ELSE LET next == Head(rest)
         IN  IF next[1] <= curr[2]
             THEN MergeBlockages(<<curr[1], Max(curr[2], next[2])>>, Tail(rest))
             ELSE <<curr>> \o MergeBlockages(next, Tail(rest))

NewSubRow(lo, hi) == [min_x |-> lo, max_x |-> hi, used_width |-> 0, cells |-> <<>>]

\* The free gaps between the merged blockages of a row
RECURSIVE BuildSubRows(_, _)
BuildSubRows(merged, current_x) ==
    IF merged = <<>>
    THEN IF current_x < die_area.max_x
         THEN <<NewSubRow(current_x, die_area.max_x)>> ELSE <<>>
    ELSE LET b == Head(merged)
         IN  (IF b[1] > current_x THEN <<NewSubRow(current_x, b[1])>> ELSE <<>>)
             \o BuildSubRows(Tail(merged), Max(current_x, b[2]))

SubRowsOfRow(rects, r, row_height) ==
    LET raw    == RowBlockages(rects, r, row_height)
        sorted == SortByKey(raw, [b \in Range(raw) |-> <<b[1], 0>>])
        merged == IF sorted = <<>> THEN <<>>
                  ELSE MergeBlockages(Head(sorted), Tail(sorted))
    IN  BuildSubRows(merged, die_area.min_x)

\* rows[r + 1] holds the subrows of row r
BuildRows(pos, row_height) ==
    LET rects == FixedRects(pos, row_height)
    IN  [r1 \in 1..NumRows(row_height) |-> SubRowsOfRow(rects, r1 - 1, row_height)]

IdealRow(p, row_height) == RoundDiv(p.y - die_area.min_y, row_height)

\* std_cells sorted by (row, x)
StdCells(pos, row_height) ==
    LET idx == FilterIdx(NumCells, 1,
                 {i \in 1..NumCells : ~cells[i].is_fixed
                                      /\ ~IsMacroHeight(cells[i].height, row_height)})
    IN  SortByKey(idx, [i \in 1..NumCells |->
                           <<IdealRow(pos[i], row_height), pos[i].x>>])

\* Choice of a subrow of one row: among the subrows with enough remaining
\* capacity, the first whose centre is nearest to pos.x; 0 when none fits.
\* The distances are doubled to keep the centre (min_x + max_x) / 2 whole.
BestSub(subs, cell_width, pos_x) ==
    LET fits == {k \in 1..Len(subs) :
                    subs[k].used_width + cell_width + CELL_PADDING
                        <= subs[k].max_x - subs[k].min_x}
        dist(k) == Abs(2 * pos_x - (subs[k].min_x + subs[k].max_x))
        best == {k \in fits : \A j \in fits : dist(k) <= dist(j)}
    IN  IF fits = {} THEN 0 ELSE CHOOSE k \in best : \A j \in best : k <= j

\* The n-th row offset tried: 0, +1, -1, +2, -2, ..., +50, -50
TryOffset(n) == IF n = 1 THEN 0 ELSE IF n % 2 = 0 THEN n \div 2 ELSE -((n - 1) \div 2)

\* One iteration of the assignment loop: cell i is recorded in a subrow
AssignCell(rows, i, pos, row_height) ==
    LET num_rows == Len(rows)
        ideal    == IdealRow(pos[i], row_height)
        w        == cells[i].width
        hits == {n \in 1..(2 * SEARCH_RADIUS + 1) :
                    LET r == ideal + TryOffset(n)
                    IN  r >= 0 /\ r < num_rows /\ BestSub(rows[r + 1], w, pos[i].x) # 0}
    IN  IF hits # {}
        THEN LET n0 == CHOOSE n \in hits : \A m \in hits : n <= m
                 r  == ideal + TryOffset(n0)
                 k  == BestSub(rows[r + 1], w, pos[i].x)
             IN  [rows EXCEPT ![r + 1][k].cells = Append(@, i),
                              ![r + 1][k].used_width = @ + w + CELL_PADDING]
        ELSE LET r == Clamp(ideal, 0, num_rows - 1)
             IN  IF rows[r + 1] # <<>>
                 THEN [rows EXCEPT ![r + 1][1].cells = Append(@, i)]
                 ELSE rows

RECURSIVE AssignAll(_, _, _, _)
AssignAll(rows, todo, pos, row_height) ==
    IF todo = <<>> THEN rows
    ELSE AssignAll(AssignCell(rows, Head(todo), pos, row_height),
                   Tail(todo), pos, row_height)

\* rows after the assignment loop
AssignedRows(pos, row_height) ==
    AssignAll(BuildRows(pos, row_height), StdCells(pos, row_height), pos, row_height)

\* prev_c.q / prev_c.weight; exact whenever the quotient is a whole number of units
DivF(q, weight) == q \div weight

\* AbacusLegalizer::collapse
RECURSIVE collapse(_, _)
collapse(clusters, min_x) ==
    LET n     == Len(clusters)
        last  == IF clusters[n].x < min_x
                 THEN [clusters[n] EXCEPT !.x = min_x] ELSE clusters[n]
        cl1   == [clusters EXCEPT ![n] = last]
    IN  IF n <= 1 THEN cl1
        ELSE LET prev == cl1[n - 1]
             IN  IF prev.x + prev.width > last.x
                 THEN LET q2 == prev.q + (last.q - last.weight * prev.width)
                          w2 == prev.weight + last.weight
                          merged == [x |-> DivF(q2, w2),
                                     width |-> prev.width + last.width,
                                     weight |-> w2,
                                     q |-> q2,
                                     member_cells |-> prev.member_cells \o last.member_cells]
                      IN  collapse(SubSeq(cl1, 1, n - 2) \o <<merged>>, min_x)
                 ELSE cl1

\* The cluster-building loop over the cells of a subrow (sorted by x)
RECURSIVE BuildClusters(_, _, _, _)
BuildClusters(clusters, todo, pos, min_x) ==
    IF todo = <<>> THEN clusters
    ELSE LET c == Head(todo)
             new_cluster == [x |-> pos[c].x,
                             width |-> cells[c].width + CELL_PADDING,
                             weight |-> 1,
                             q |-> pos[c].x,
                             member_cells |-> <<c>>]
         IN  BuildClusters(collapse(Append(clusters, new_cluster), min_x),
                           Tail(todo), pos, min_x)

\* Left-limit pass, first cluster first
RECURSIVE LeftLimitPass(_, _)
LeftLimitPass(clusters, left_limit) ==
    IF clusters = <<>> THEN <<>>
    ELSE LET c  == Head(clusters)
             x1 == IF c.x < left_limit THEN left_limit ELSE c.x
         IN  <<[c EXCEPT !.x = x1]>> \o LeftLimitPass(Tail(clusters), x1 + c.width)

\* A packing without the right-limit pass
RightLimitPassSkipped(clusters, right_limit) == clusters

\* Right-limit pass, last cluster first
RECURSIVE RightLimitPass(_, _)
RightLimitPass(clusters, right_limit) ==
    IF clusters = <<>> THEN <<>>
    ELSE LET n  == Len(clusters)
             c  == clusters[n]
             x1 == IF c.x + c.width > right_limit THEN right_limit - c.width ELSE c.x
         IN  RightLimitPass(SubSeq(clusters, 1, n - 1), x1) \o <<[c EXCEPT !.x = x1]>>

\* The cells of one cluster laid out from current_x: a sequence of <<cell, x>>
RECURSIVE LayoutCluster(_, _, _)
LayoutCluster(members, current_x, min_x) ==
    IF members = <<>> THEN <<>>
    ELSE LET c      == Head(members)
             safe_x == Max(current_x, min_x)
         IN  <<<<c, safe_x>>>>
             \o LayoutCluster(Tail(members), safe_x + cells[c].width + CELL_PADDING, min_x)

RECURSIVE LayoutClusters(_, _)
LayoutClusters(clusters, min_x) ==
    IF clusters = <<>> THEN <<>>
    ELSE LayoutCluster(Head(clusters).member_cells, Head(clusters).x, min_x)
         \o LayoutClusters(Tail(clusters), min_x)

\* The packing of one subrow: the <<cell, x>> pairs of its cells
PackSubRow(sub, pos) ==
    LET sorted   == SortByKey(sub.cells, [i \in 1..NumCells |-> <<pos[i].x, 0>>])
        clusters == BuildClusters(<<>>, sorted, pos, sub.min_x)
        limited  == RightLimitPass(LeftLimitPass(clusters, sub.min_x), sub.max_x)
    IN  LayoutClusters(limited, sub.min_x)

\* The subrow (row index r1, subrow index k) that holds cell i, as a set
SubRowOf(rows, i) ==
    {<<r1, k>> \in (1..Len(rows)) \X (1..NumCells + 1) :
        k <= Len(rows[r1]) /\ i \in Range(rows[r1][k].cells)}

\* AbacusLegalizer::legalize with the row height it computed: the new positions
Legalize(pos, row_height) ==
    IF NumRows(row_height) = 0 THEN pos
    ELSE LET after == PositionsAfterMacros(pos, row_height)
             rows  == AssignedRows(pos, row_height)
         IN  [i \in 1..NumCells |->
                LET at == SubRowOf(rows, i)
                IN  IF at = {} THEN after[i]
                    ELSE LET rk   == CHOOSE a \in at : TRUE
                             sub  == rows[rk[1]][rk[2]]
                             laid == PackSubRow(sub, pos)
                             me   == CHOOSE j \in 1..Len(laid) : laid[j][1] = i
                         IN  [x |-> laid[me][2],
                              y |-> die_area.min_y + (rk[1] - 1) * row_height]]

----------------------------------------------------------------------------
(* The parts of the flow that a specification leaves at rest *)

LegIdle ==
    /\ leg_runs = 0
    /\ leg_before = <<>>
    /\ leg_row_height = 0

NesIdle ==
    /\ nes_pc = "idle"
    /\ nes_iters = 0
    /\ nes_late = FALSE
    /\ x_k = <<>>
    /\ x_prev = <<>>
    /\ y_k = <<>>
    /\ nes_entry = <<>>
    /\ nes_raw = <<>>
    /\ nes_threshold = 0
    /\ nes_result = "none"

VerIdle ==
    /\ route_segments = <<>>
    /\ ver_result = [kind |-> "none", n1 |-> 0, n2 |-> 0, layer |-> 0]
    /\ ver_runs = <<>>

AStarIdle ==
    /\ db_layers = <<>>
    /\ grid = [width |-> 0, height |-> 0, layers |-> 0, obstacles |-> {},
               cost_cache |-> <<>>]
    /\ call = [starts |-> <<>>]
    /\ heap = {}
    /\ g_score = <<>>
    /\ parents = <<>>
    /\ expansions = 0
    /\ as_pc = "idle"
    /\ as_result = [kind |-> "none", path |-> <<>>]

DrIdle ==
    /\ dr_config = [capacity |-> 0]
    /\ guides = <<>>
    /\ net_paths = <<>>
    /\ net_topologies = <<>>
    /\ ripup_counts = <<>>
    /\ dr = [pc |-> "idle"]
    /\ rn = [active |-> FALSE]

FlowIdle ==
    flow = [pc |-> "idle", stages |-> <<>>, result |-> "none"]

WlIdle ==
    wl = [pc |-> "idle"]

GrIdle ==
    gr = [pc |-> "idle"]

SolverIdle ==
    solver = [pc |-> "idle"]

ChkIdle ==
    chk = [pc |-> "idle"]

ExtractIdle ==
    extract = [pc |-> "idle"]

SpatialIdle ==
    spatial = [pc |-> "idle"]

OracleIdle ==
    oracle = [pc |-> "idle"]


----------------------------------------------------------------------------
(* The legaliser's specification: a placed netlist, then legalize twice *)

MaxLegRuns == 2

U4 == Unit \div 4

Cell(name, w, h, fixed) == [name |-> name, width |-> w, height |-> h, is_fixed |-> fixed]
Pt(x, y) == [x |-> x, y |-> y]

LegDies ==
    { [min_x |-> 0, min_y |-> 0, max_x |-> 6 * Unit, max_y |-> 10 * U4],
      [min_x |-> 0, min_y |-> 0, max_x |-> 3 * Unit, max_y |-> 2 * Unit] }

\* The first cell: the virtual IO cell, a fixed blockage, or a movable macro
LegFirstCells ==
    { <<Cell("IO_VIRTUAL_CELL", 0, 0, TRUE), Pt(0, 0)>> }
    \cup { <<Cell("blk", w, Unit, TRUE), Pt(x, y)>> :
             w \in {2 * U4, 3 * Unit}, x \in {0, 4 * Unit}, y \in {0, Unit} }
    \cup { <<Cell("mac", Unit, 2 * Unit, FALSE), Pt(x, y)>> :
             x \in {0, 2 * Unit}, y \in {0, U4} }

\* The standard cells, where the placer left them
LegStdCells ==
    { <<Cell("std", w, Unit, FALSE), Pt(x, y)>> :
        w \in {U4, 2 * Unit}, x \in {0, 18 * (Unit \div 5)}, y \in {0, U4, 6 * U4} }

\* NesterovOptimizer::apply_clamping: a movable cell enters the legaliser inside the die
PlacedAt(d, c, p) ==
    IF c.is_fixed THEN p
    ELSE Pt(Clamp(p.x, d.min_x, d.max_x - c.width),
            Clamp(p.y, d.min_y, d.max_y - c.height))

\* One row that is one subrow [0, 7.0], and three standard cells of width 2.0
\* on it, each with its ideal x at 0 or at 3.0
LegRowDie == [min_x |-> 0, min_y |-> 0, max_x |-> 7 * Unit, max_y |-> Unit]

LegRowCells ==
    { <<Cell("std", 2 * Unit, Unit, FALSE), Pt(x, 0)>> : x \in {0, 3 * Unit} }

LegDesigns ==
    { <<d, <<c1, c2, c3>> >> :
        d \in LegDies, c1 \in LegFirstCells, c2 \in LegStdCells, c3 \in LegStdCells }
    \cup { <<LegRowDie, <<c1, c2, c3>> >> :
             c1 \in LegRowCells, c2 \in LegRowCells, c3 \in LegRowCells }

LegInit ==
    \E design \in LegDesigns :
        /\ die_area = design[1]
        /\ cells = [i \in 1..3 |-> design[2][i][1]]
        /\ positions = [i \in 1..3 |->
                            PlacedAt(design[1], design[2][i][1], design[2][i][2])]
        /\ nets = <<>>
        /\ leg_runs = 0
        /\ leg_before = positions
        /\ leg_row_height = 0
        /\ NesIdle
        /\ VerIdle
        /\ AStarIdle
        /\ DrIdle
        /\ FlowIdle
        /\ WlIdle
        /\ GrIdle
        /\ SolverIdle
        /\ OracleIdle
        /\ SpatialIdle
        /\ ExtractIdle
        /\ ChkIdle

\* One call of AbacusLegalizer::legalize
LegalizeCall ==
    /\ leg_runs < MaxLegRuns
    /\ \E rh \in RowHeightChoices :
          /\ positions' = Legalize(positions, rh)
          /\ leg_row_height' = rh
    /\ leg_before' = positions
    /\ leg_runs' = leg_runs + 1
    /\ UNCHANGED <<dbVars, legRest>>

LegNext == LegalizeCall

SpecLegalize == LegInit /\ [][LegNext]_vars

----------------------------------------------------------------------------
(* The placement verifier: run_placement_check *)

\* CHECK_TOLERANCE is 0.005 = 1 / CHECK_TOLERANCE_DEN of a world unit
CHECK_TOLERANCE_DEN == 200

\* a < b - CHECK_TOLERANCE and a > b + CHECK_TOLERANCE
LtTol(a, b) == CHECK_TOLERANCE_DEN * a < CHECK_TOLERANCE_DEN * b - Unit
GtTol(a, b) == CHECK_TOLERANCE_DEN * a > CHECK_TOLERANCE_DEN * b + Unit

IsIoCell(i) == cells[i].name = "IO_VIRTUAL_CELL"

CellRect(i) == RectOf(positions[i], cells[i])

OutOfBounds(i) ==
    LET r == CellRect(i) IN
    \/ LtTol(r.min_x, die_area.min_x)
    \/ LtTol(r.min_y, die_area.min_y)
    \/ GtTol(r.max_x, die_area.max_x)
    \/ GtTol(r.max_y, die_area.max_y)

\* r1 shrunk by the tolerance on every side overlaps r2 (Rect::overlaps is strict)
ShrinkOverlaps(r1, r2) ==
    /\ LtTol(r1.min_x, r2.max_x)
    /\ GtTol(r1.max_x, r2.min_x)
    /\ LtTol(r1.min_y, r2.max_y)
    /\ GtTol(r1.max_y, r2.min_y)

HasOverlap ==
    \E i, j \in 1..NumCells :
        /\ i < j
        /\ ~IsIoCell(i)
        /\ ~IsIoCell(j)
        /\ ShrinkOverlaps(CellRect(i), CellRect(j))

PlacementCheckPasses ==
    /\ \A i \in 1..NumCells : IsIoCell(i) \/ ~OutOfBounds(i)
    /\ ~HasOverlap

\* The movable standard cells of the last run
IsStdCell(i) ==
    /\ ~cells[i].is_fixed
    /\ ~IsMacroHeight(cells[i].height, leg_row_height)

\* A standard cell lies over a blockage: a fixed cell or a pre-placed macro
CrossesBlockage(i) ==
    \E j \in 1..NumCells :
        /\ j # i
        /\ ~IsIoCell(j)
        /\ cells[j].is_fixed \/ IsMacroHeight(cells[j].height, leg_row_height)
        /\ ShrinkOverlaps(CellRect(i), CellRect(j))

----------------------------------------------------------------------------
(* Claims about the legaliser *)

\* C1: after legalize, no two cell rectangles overlap by more than 5 nm,
\* every non-fixed cell lies inside the die, and no standard cell crosses a
\* blockage.
C1_LegalPlacement ==
    leg_runs >= 1 =>
        /\ ~HasOverlap
        /\ \A i \in 1..NumCells : cells[i].is_fixed \/ ~OutOfBounds(i)
        /\ \A i \in 1..NumCells : IsStdCell(i) => ~CrossesBlockage(i)

\* C4: after legalize, every movable standard cell sits on a row:
\* y = die.min.y + k * row_height for an integer k >= 0.
C4_RowAligned ==
    leg_runs >= 1 =>
        \A i \in 1..NumCells :
            IsStdCell(i) =>
                /\ positions[i].y >= die_area.min_y
                /\ (positions[i].y - die_area.min_y) % leg_row_height = 0

\* C10: legalisation is idempotent: a second run on the positions of a first
\* run leaves every position unchanged.
C10_Idempotent ==
    leg_runs = MaxLegRuns => positions = leg_before

\* The input of the packing example: the die is one row [0, 7.0], the three
\* cells are standard cells of width 2.0 and all entered legalize at x = 3.0
RowOfThreeAtThree ==
    /\ die_area = LegRowDie
    /\ \A i \in 1..NumCells :
          /\ cells[i] = Cell("std", 2 * Unit, Unit, FALSE)
          /\ leg_before[i] = Pt(3 * Unit, 0)

\* The x positions of the three cells in twentieths of a unit
XsAre(a, b, c) ==
    /\ positions[1].x * 20 = a * Unit
    /\ positions[2].x * 20 = b * Unit
    /\ positions[3].x * 20 = c * Unit

\* C11 (as stated): three cells of width 2 with ideal x = 3 in the subrow
\* [0, 7] are packed at x = 0.00, 2.05 and 4.10.
C11_PackedFromZero ==
    (leg_runs = 1 /\ RowOfThreeAtThree) => XsAre(0, 41, 82)

\* C11 (amended): the three cells form one cluster whose anchor q / weight is
\* 0.95, the right-limit pass moves it to 7 - 6.15 = 0.85, and the cells are
\* packed at x = 0.85, 2.90 and 4.95.
C11_PackedAgainstRightLimit ==
    (leg_runs = 1 /\ RowOfThreeAtThree) => XsAre(17, 58, 99)

C11_Witness ==
    leg_runs = 1 /\ RowOfThreeAtThree /\ XsAre(17, 58, 99)

----------------------------------------------------------------------------
(* The global placer: NesterovOptimizer::optimize                          *)
(*                                                                         *)
(* Positions are whole numbers of an arbitrary length unit.  The gradient  *)
(* is a floating-point quantity the model does not compute: a step         *)
(* g * step_size is drawn from the values the gradient code permits.  For  *)
(* a two-pin net the weighted-average gradient of a pin has the sign of    *)
(* (its coordinate - the other pin's coordinate) and is zero only when the *)
(* two coincide; the density force is added for non-fixed cells only.      *)
(* The loop index k is kept as the number of loop bodies executed, up to   *)
(* MaxIter; nes_late records whether k has passed 500 and may turn true at *)
(* any iteration of the model.                                             *)

MaxIter == 2
MaxStep == 1

Sign(a) == IF a > 0 THEN 1 ELSE IF a < 0 THEN -1 ELSE 0

\* NetlistDB::get_pin_position on one axis
PinX(pin, pts) == pts[pin.cell].x + pin.off_x
PinY(pin, pts) == pts[pin.cell].y + pin.off_y

\* compute_wa_gradient: the signs of the terms added to gradients[i] on each axis
WaSignsX(i, pts) ==
    {Sign(PinX(nets[n][a], pts) - PinX(nets[n][b], pts)) :
        <<n, a, b>> \in {t \in (DOMAIN nets) \X (1..2) \X (1..2) :
                            /\ Len(nets[t[1]]) >= 2
                            /\ t[2] # t[3]
                            /\ nets[t[1]][t[2]].cell = i}}

WaSignsY(i, pts) ==
    {Sign(PinY(nets[n][a], pts) - PinY(nets[n][b], pts)) :
        <<n, a, b>> \in {t \in (DOMAIN nets) \X (1..2) \X (1..2) :
                            /\ Len(nets[t[1]]) >= 2
                            /\ t[2] # t[3]
                            /\ nets[t[1]][t[2]].cell = i}}

\* The values g * step_size can take when the terms of g have these signs
StepsOfSigns(signs) ==
    IF signs \subseteq {0} THEN {0}
    ELSE IF signs \subseteq {0, 1} THEN 1..MaxStep
    ELSE IF signs \subseteq {0, -1} THEN {-m : m \in 1..MaxStep}
    ELSE (-MaxStep)..MaxStep

\* PhysicsContext::compute_gradients times step_size for cell i at the points pts:
\* compute_density_force skips the fixed cells, compute_wa_gradient does not
GradSteps(i, pts) ==
    IF cells[i].is_fixed
    THEN [x : StepsOfSigns(WaSignsX(i, pts)), y : StepsOfSigns(WaSignsY(i, pts))]
    ELSE [x : (-MaxStep)..MaxStep, y : (-MaxStep)..MaxStep]

\* A clamping that forgets the cell size
ClampToDieCorner(pts) ==
    [i \in 1..NumCells |->
        IF cells[i].is_fixed THEN pts[i]
        ELSE [x |-> Clamp(pts[i].x, die_area.min_x, die_area.max_x),
              y |-> Clamp(pts[i].y, die_area.min_y, die_area.max_y)]]

\* NesterovOptimizer::apply_clamping
apply_clamping(pts) ==
    [i \in 1..NumCells |->
        IF cells[i].is_fixed THEN pts[i]
        ELSE [x |-> Clamp(pts[i].x, die_area.min_x, die_area.max_x - cells[i].width),
              y |-> Clamp(pts[i].y, die_area.min_y, die_area.max_y - cells[i].height)]]

\* f64::clamp panics when its lower limit exceeds its upper limit
ClampPanics ==
    \E i \in 1..NumCells :
        /\ ~cells[i].is_fixed
        /\ \/ die_area.min_x > die_area.max_x - cells[i].width
           \/ die_area.min_y > die_area.max_y - cells[i].height

\* The values (x_next - x_k) * momentum can take: momentum is 0 in the first
\* iteration and lies strictly between 0 and 1 afterwards
MomentumTerms(diff, first) ==
    IF first \/ diff = 0 THEN {0}
    ELSE {Sign(diff) * t : t \in 0..(Abs(diff) - 1)}

\* total_disp of the convergence check
TotalDisp ==
    SeqSum([i \in 1..NumCells |->
               Abs(x_k[i].x - x_prev[i].x) + Abs(x_k[i].y - x_prev[i].y)])

\* Entry of optimize up to the head of the loop: the non-fixed cells are
\* scattered around the die centre and clamped
NesStart ==
    /\ nes_pc = "idle"
    /\ nes_entry' = positions
    /\ IF ClampPanics
       THEN /\ nes_pc' = "panicked"
            /\ UNCHANGED <<x_k, x_prev, y_k, nes_raw>>
       ELSE LET center_x == (die_area.min_x + die_area.max_x) \div 2
                center_y == (die_area.min_y + die_area.max_y) \div 2
                noise_scale_x == (die_area.max_x - die_area.min_x) \div 4
                noise_scale_y == (die_area.max_y - die_area.min_y) \div 4
            IN  \E noise \in [1..NumCells ->
                                [x : (-noise_scale_x)..(noise_scale_x - 1),
                                 y : (-noise_scale_y)..(noise_scale_y - 1)]] :
                    LET raw == [i \in 1..NumCells |->
                                   IF cells[i].is_fixed THEN positions[i]
                                   ELSE [x |-> center_x + noise[i].x,
                                         y |-> center_y + noise[i].y]]
                    IN  /\ \A i \in 1..NumCells :
                              cells[i].is_fixed => noise[i] = [x |-> 0, y |-> 0]
                        /\ nes_raw' = raw
                        /\ x_k' = apply_clamping(raw)
                        /\ x_prev' = apply_clamping(raw)
                        /\ y_k' = apply_clamping(raw)
                        /\ nes_pc' = "running"
    /\ UNCHANGED <<dbVars, positions, nesRest, nes_iters, nes_late, nes_threshold,
                   nes_result>>

\* The sequences that take their i-th element from the i-th set
RECURSIVE SeqChoices(_)
SeqChoices(sets) ==
    IF sets = <<>> THEN {<<>>}
    ELSE {<<h>> \o t : h \in Head(sets), t \in SeqChoices(Tail(sets))}

\* The values of x_next[i] + (x_next[i] - x_k[i]) * momentum
MomentumPoints(i, x_next, first) ==
    [x : {x_next[i].x + t : t \in MomentumTerms(x_next[i].x - x_k[i].x, first)},
     y : {x_next[i].y + t : t \in MomentumTerms(x_next[i].y - x_k[i].y, first)}]

\* One body of the loop that does not take the convergence exit
NesIterate ==
    /\ nes_pc = "running"
    /\ nes_iters < MaxIter
    /\ \E g \in SeqChoices([i \in 1..NumCells |-> GradSteps(i, y_k)]) :
          LET raw    == [i \in 1..NumCells |->
                            [x |-> y_k[i].x - g[i].x, y |-> y_k[i].y - g[i].y]]
              x_next == apply_clamping(raw)
          IN  /\ \E y_next \in SeqChoices([i \in 1..NumCells |->
                                  IF cells[i].is_fixed THEN {x_k[i]}
                                  ELSE MomentumPoints(i, x_next, nes_iters = 0)]) :
                    y_k' = apply_clamping(y_next)
              /\ nes_raw' = raw
              /\ x_prev' = x_k
              /\ x_k' = x_next
    /\ nes_iters' = nes_iters + 1
    /\ nes_late' \in {nes_late, TRUE}
    /\ UNCHANGED <<dbVars, positions, nesRest, nes_pc, nes_entry, nes_threshold,
                   nes_result>>

\* The convergence exit: k > 500, avg_disp below the threshold, and a density
\* cost below 50000 (an output of the density code, not modelled)
NesConverge ==
    /\ nes_pc = "running"
    /\ nes_late
    /\ TotalDisp < nes_threshold * NumCells
    /\ x_k' = apply_clamping(x_k)
    /\ positions' = apply_clamping(x_k)
    /\ nes_pc' = "returned"
    /\ nes_result' = "Ok"
    /\ UNCHANGED <<dbVars, nesRest, nes_iters, nes_late, x_prev, y_k, nes_entry,
                   nes_raw, nes_threshold>>

\* The loop ends at k = max_iterations
NesLimit ==
    /\ nes_pc = "running"
    /\ x_k' = apply_clamping(x_k)
    /\ positions' = apply_clamping(x_k)
    /\ nes_pc' = "returned"
    /\ nes_result' = "Ok"
    /\ UNCHANGED <<dbVars, nesRest, nes_iters, nes_late, x_prev, y_k, nes_entry,
                   nes_raw, nes_threshold>>

Pin(c, ox, oy) == [cell |-> c, off_x |-> ox, off_y |-> oy]

NesDie == [min_x |-> 0, min_y |-> 0, max_x |-> 4, max_y |-> 4]

\* The first cell is fixed: the virtual IO cell at the origin, or a fixed block
NesFixedCells ==
    { <<Cell("IO_VIRTUAL_CELL", 0, 0, TRUE), Pt(0, 0)>>,
      <<Cell("blk", 1, 1, TRUE), Pt(3, 3)>> }

\* The second cell is movable; a cell wider than the die makes clamp panic
NesMovableCells ==
    { Cell("std", w, h, FALSE) : w \in {1, 3, 5}, h \in {1, 3} }

\* No net, or one two-pin net from a pin of the fixed cell to the movable cell
NesNets ==
    { <<>> } \cup { << <<Pin(1, o[1], o[2]), Pin(2, 0, 0)>> >> : o \in {<<0, 0>>, <<4, 2>>} }

NesInit ==
    \E c1 \in NesFixedCells, c2 \in NesMovableCells, ns \in NesNets, th \in {1, 2} :
        /\ die_area = NesDie
        /\ cells = <<c1[1], c2>>
        /\ positions = <<c1[2], Pt(0, 0)>>
        /\ nets = ns
        /\ LegIdle
        /\ VerIdle
        /\ AStarIdle
        /\ DrIdle
        /\ FlowIdle
        /\ WlIdle
        /\ GrIdle
        /\ SolverIdle
        /\ OracleIdle
        /\ SpatialIdle
        /\ ExtractIdle
        /\ ChkIdle
        /\ nes_pc = "idle"
        /\ nes_iters = 0
        /\ nes_late = FALSE
        /\ x_k = <<>>
        /\ x_prev = <<>>
        /\ y_k = <<>>
        /\ nes_entry = <<>>
        /\ nes_raw = <<>>
        /\ nes_threshold = th
        /\ nes_result = "none"

NesNext == NesStart \/ NesIterate \/ NesConverge \/ NesLimit

SpecNesterov == NesInit /\ [][NesNext]_vars

\* C5: optimize holds every fixed cell at its position on entry, at every
\* iteration and on return.
C5_FixedHeld ==
    /\ nes_pc = "running" =>
          \A i \in 1..NumCells : cells[i].is_fixed => x_k[i] = nes_entry[i]
    /\ nes_pc = "returned" =>
          \A i \in 1..NumCells : cells[i].is_fixed => positions[i] = nes_entry[i]

----------------------------------------------------------------------------
(* The route verifier: check_shorts_and_loops                              *)
(*                                                                         *)
(* Route coordinates are whole nanometres (0.001 of a world unit):         *)
(* CHECK_TOLERANCE is 5, BIN_SIZE is 10000, and a cross product of two     *)
(* lengths is compared against 0.005 square units = 5000 nm^2.             *)

CHECK_TOLERANCE == 5
BIN_SIZE == 10000

Seg(p1, p2, layer) == [p1 |-> p1, p2 |-> p2, layer |-> layer]

\* fn orientation: 0 when |val| < CHECK_TOLERANCE, else 1 or 2 by the sign
orientation(p, q, r) ==
    LET val == (q.y - p.y) * (r.x - q.x) - (q.x - p.x) * (r.y - q.y)
    IN  IF Abs(val) < 1000 * CHECK_TOLERANCE THEN 0
        ELSE IF val > 0 THEN 1 ELSE 2

on_segment(p, a, b) ==
    /\ p.x >= Min(a.x, b.x) - CHECK_TOLERANCE
    /\ p.x <= Max(a.x, b.x) + CHECK_TOLERANCE
    /\ p.y >= Min(a.y, b.y) - CHECK_TOLERANCE
    /\ p.y <= Max(a.y, b.y) + CHECK_TOLERANCE

\* Segment::intersects
intersects(s1, s2) ==
    /\ s1.layer = s2.layer
    /\ LET min_x1 == Min(s1.p1.x, s1.p2.x) - CHECK_TOLERANCE
           max_x1 == Max(s1.p1.x, s1.p2.x) + CHECK_TOLERANCE
           min_y1 == Min(s1.p1.y, s1.p2.y) - CHECK_TOLERANCE
           max_y1 == Max(s1.p1.y, s1.p2.y) + CHECK_TOLERANCE
           min_x2 == Min(s2.p1.x, s2.p2.x) - CHECK_TOLERANCE
           max_x2 == Max(s2.p1.x, s2.p2.x) + CHECK_TOLERANCE
           min_y2 == Min(s2.p1.y, s2.p2.y) - CHECK_TOLERANCE
           max_y2 == Max(s2.p1.y, s2.p2.y) + CHECK_TOLERANCE
           o1 == orientation(s1.p1, s1.p2, s2.p1)
           o2 == orientation(s1.p1, s1.p2, s2.p2)
           o3 == orientation(s2.p1, s2.p2, s1.p1)
           o4 == orientation(s2.p1, s2.p2, s1.p2)
       IN  /\ ~(max_x1 < min_x2 \/ min_x1 > max_x2 \/ max_y1 < min_y2 \/ min_y1 > max_y2)
           /\ \/ o1 # o2 /\ o3 # o4
              \/ o1 = 0 /\ on_segment(s2.p1, s1.p1, s1.p2)
              \/ o2 = 0 /\ on_segment(s2.p2, s1.p1, s1.p2)
              \/ o3 = 0 /\ on_segment(s1.p1, s2.p1, s2.p2)
              \/ o4 = 0 /\ on_segment(s1.p2, s2.p1, s2.p2)

\* Segment::shares_endpoint
shares_endpoint(s1, s2) ==
    LET dist_sq(a, b) == (a.x - b.x) * (a.x - b.x) + (a.y - b.y) * (a.y - b.y)
        tol_sq == CHECK_TOLERANCE * CHECK_TOLERANCE
    IN  \/ dist_sq(s1.p1, s2.p1) < tol_sq
        \/ dist_sq(s1.p1, s2.p2) < tol_sq
        \/ dist_sq(s1.p2, s2.p1) < tol_sq
        \/ dist_sq(s1.p2, s2.p2) < tol_sq

\* is_via: both coordinates of the end points differ by less than 1e-6
IsViaSeg(sg) == sg.p1.x = sg.p2.x /\ sg.p1.y = sg.p2.y

\* The (net, seg_idx) pairs of all route segments, and the segment of a pair
SegIds ==
    UNION {{<<n, k>> : k \in DOMAIN route_segments[n]} : n \in DOMAIN route_segments}
SegAt(id) == route_segments[id[1]][id[2]]

\* The BinKeys a segment is entered under: its own extent, without tolerance
BinKeys(sg) ==
    LET start_bx == FloorDiv(Min(sg.p1.x, sg.p2.x), BIN_SIZE)
        end_bx   == FloorDiv(Max(sg.p1.x, sg.p2.x), BIN_SIZE)
        start_by == FloorDiv(Min(sg.p1.y, sg.p2.y), BIN_SIZE)
        end_by   == FloorDiv(Max(sg.p1.y, sg.p2.y), BIN_SIZE)
    IN  {<<sg.layer, bx, by>> : bx \in start_bx..end_bx, by \in start_by..end_by}

VerError(kind, a, b) ==
    [kind |-> kind, n1 |-> a[1], n2 |-> b[1], layer |-> SegAt(a).layer]

\* The entries of all_bin_entries are collected net by net and segment by
\* segment; the sort is by BinKey alone, and a slice of twenty entries or
\* fewer is sorted by insertion, which keeps that order within a chunk
IdLess(a, b) == a[1] < b[1] \/ (a[1] = b[1] /\ a[2] < b[2])

\* What the pair (s1, s2) of a chunk makes its worker report
PairKind(a, b) ==
    IF ~intersects(SegAt(a), SegAt(b)) THEN "continue"
    ELSE IF a[1] # b[1] THEN "SHORT"
    ELSE IF \/ shares_endpoint(SegAt(a), SegAt(b))
            \/ IsViaSeg(SegAt(a))
            \/ IsViaSeg(SegAt(b)) THEN "continue"
    ELSE "SELF-SHORT/LOOP"

\* The chunks: one per BinKey that has entries
Chunks == UNION {BinKeys(SegAt(id)) : id \in SegIds}

\* The pairs (i, j), i < j, of a chunk at which its worker would stop
ChunkPairs(key) ==
    {pr \in SegIds \X SegIds :
        /\ key \in BinKeys(SegAt(pr[1])) \cap BinKeys(SegAt(pr[2]))
        /\ IdLess(pr[1], pr[2])
        /\ PairKind(pr[1], pr[2]) # "continue"}

\* The error a chunk's worker reports: that of the first such pair
ChunkError(key) ==
    LET pr == CHOOSE f \in ChunkPairs(key) :
                  \A q \in ChunkPairs(key) :
                      \/ q = f
                      \/ IdLess(f[1], q[1])
                      \/ (f[1] = q[1] /\ IdLess(f[2], q[2]))
    IN  VerError(PairKind(pr[1], pr[2]), pr[1], pr[2])

\* The errors the chunks can find
ShortErrors ==
    {e \in {ChunkError(key) : key \in {k \in Chunks : ChunkPairs(k) # {}}} :
        e.kind = "SHORT"}

LoopErrors ==
    {e \in {ChunkError(key) : key \in {k \in Chunks : ChunkPairs(k) # {}}} :
        e.kind = "SELF-SHORT/LOOP"}

\* NetlistDB::get_pin_position
get_pin_position(pin) == Pt(PinX(pin, positions), PinY(pin, positions))

\* check::segments_overlap_2d
segments_overlap_2d(s1, s2) ==
    intersects([s1 EXCEPT !.layer = 0], [s2 EXCEPT !.layer = 0])

\* check::point_to_segment_dist(p, a, b) < CHECK_TOLERANCE.  The distance to
\* the inside of the segment is |cross| / sqrt(l2); it is at least
\* |cross| / (|dx| + |dy|), which keeps the squares small.
point_to_segment_near(p, a, b) ==
    LET dx == b.x - a.x
        dy == b.y - a.y
        l2 == dx * dx + dy * dy
        dot == (p.x - a.x) * dx + (p.y - a.y) * dy
        cross == (p.x - a.x) * dy - (p.y - a.y) * dx
        dist_sq(q) == (p.x - q.x) * (p.x - q.x) + (p.y - q.y) * (p.y - q.y)
        tol_sq == CHECK_TOLERANCE * CHECK_TOLERANCE
    IN  IF l2 = 0 \/ dot <= 0 THEN dist_sq(a) < tol_sq
        ELSE IF dot >= l2 THEN dist_sq(b) < tol_sq
        ELSE /\ Abs(cross) <= CHECK_TOLERANCE * (Abs(dx) + Abs(dy))
             /\ cross * cross < tol_sq * l2

\* check_opens: two segments of a net are adjacent
segments_adjacent(s1, s2) ==
    IF s1.layer = s2.layer THEN intersects(s1, s2) \/ shares_endpoint(s1, s2)
    ELSE Abs(s1.layer - s2.layer) = 1 /\ segments_overlap_2d(s1, s2)

\* check_opens: the segments its search visits from the segments in seen
RECURSIVE Visited(_, _, _)
Visited(segments, seen, k) ==
    IF k = 0 THEN seen
    ELSE Visited(segments,
                 seen \cup {j \in DOMAIN segments :
                               \E i \in seen : segments_adjacent(segments[i], segments[j])},
                 k - 1)

\* check_opens: the layer-0 segments within CHECK_TOLERANCE of a pin
PinSegments(id, pin) ==
    {i \in DOMAIN route_segments[id] :
        /\ route_segments[id][i].layer = 0
        /\ point_to_segment_near(get_pin_position(pin), route_segments[id][i].p1,
                                 route_segments[id][i].p2)}

VerOk == [kind |-> "Ok", n1 |-> 0, n2 |-> 0, layer |-> 0]
VerNone == [kind |-> "none", n1 |-> 0, n2 |-> 0, layer |-> 0]

\* The values check_shorts_and_loops can return: Ok when no chunk finds an
\* error, else the message of the chunk that set error_found first
ShortCheckResults ==
    IF ShortErrors \cup LoopErrors = {} THEN {VerOk}
    ELSE ShortErrors \cup LoopErrors

check_shorts_and_loops ==
    /\ ver_result = VerNone
    /\ ver_result' \in ShortCheckResults
    /\ UNCHANGED <<dbVars, route_segments, ver_runs, verRest>>

\* check_opens: the error the worker of one net reports, VerOk when none
NetOpenError(id) ==
    LET net      == nets[id]
        segments == route_segments[id]
        unfound  == {k \in DOMAIN net : PinSegments(id, net[k]) = {}}
        \* the first layer-0 segment near each pin
        pin_segment_indices == {SetMin(PinSegments(id, net[k])) : k \in DOMAIN net}
        start_node == SetMin(PinSegments(id, net[1]))
        visited  == Visited(segments, {start_node}, Len(segments))
    IN  IF Len(net) < 2 THEN VerOk
        ELSE IF segments = <<>>
             THEN [kind |-> "Unrouted", n1 |-> id, n2 |-> 0, layer |-> 0]
        ELSE IF unfound # {}
             THEN [kind |-> "Pin", n1 |-> id, n2 |-> SetMin(unfound), layer |-> 0]
        ELSE IF pin_segment_indices \subseteq visited THEN VerOk
        ELSE [kind |-> "Broken", n1 |-> id, n2 |-> 0, layer |-> 0]

OpenErrors == {NetOpenError(id) : id \in DOMAIN nets} \ {VerOk}

\* The values check_opens can return: Ok when no net has an error, else the
\* message of the worker that set error_found first
OpenCheckResults == IF OpenErrors = {} THEN {VerOk} ELSE OpenErrors

\* check::run: the messages of its Err value, in the order they are joined
\* with "; "; no message stands for Ok(())
run_msgs(shorts_result, opens_result) ==
    (IF shorts_result = VerOk THEN <<>> ELSE <<shorts_result>>)
    \o (IF opens_result = VerOk THEN <<>> ELSE <<opens_result>>)

MaxVerRuns == 2

\* One call of check::run: the two checks are joined, each on its workers
check_run ==
    /\ Len(ver_runs) < MaxVerRuns
    /\ \E shorts_result \in ShortCheckResults, opens_result \in OpenCheckResults :
          ver_runs' = Append(ver_runs, run_msgs(shorts_result, opens_result))
    /\ UNCHANGED <<dbVars, route_segments, ver_result, verRest>>

\* The database when only the A* kernel runs
DbIdle ==
    /\ die_area = [min_x |-> 0, min_y |-> 0, max_x |-> 0, max_y |-> 0]
    /\ cells = <<>>
    /\ positions = <<>>
    /\ nets = <<>>

\* Segment end points on either side of the bin boundary at 10.0
VerPoints == [x : {5000, 9998, 10001, 15000}, y : {5000, 9998, 10001}]

\* Wires along one axis and vias (p1 = p2)
VerSegments(layers) ==
    {Seg(p1, p2, l) : <<p1, p2, l>> \in
        {t \in VerPoints \X VerPoints \X layers : t[1].x = t[2].x \/ t[1].y = t[2].y}}

\* Three wires on layer 0: one across the bin boundary at x = 10.0 and one
\* from each of its ends
VerWires ==
    { Seg(Pt(5000, 5000), Pt(15000, 5000), 0),
      Seg(Pt(5000, 5000), Pt(5000, 9998), 0),
      Seg(Pt(15000, 5000), Pt(15000, 9998), 0) }

\* A net as <<pins, route_segments>>: two pins at the ends of a wire (pins of
\* the virtual IO cell at the origin) or no pin, and the wire, a via at its
\* first end, or nothing
VerNetChoices ==
    UNION {{ <<pins, segs>> :
               pins \in {<<>>, <<Pin(1, w.p1.x, w.p1.y), Pin(1, w.p2.x, w.p2.y)>>},
               segs \in {<<>>, <<w>>, <<Seg(w.p1, w.p1, 0)>>} } : w \in VerWires}

\* The routed nets handed to the verifier: two nets without pins with one
\* segment each, or three nets of VerNetChoices
VerDesigns ==
    { << <<>>, <<>> >> } \X
        { << <<s1>>, <<s2>> >> : s1 \in VerSegments({0}), s2 \in VerSegments({0, 1}) }
    \cup { << <<n1[1], n2[1], n3[1]>>, <<n1[2], n2[2], n3[2]>> >> :
             n1 \in VerNetChoices, n2 \in VerNetChoices, n3 \in VerNetChoices }

VerInit ==
    /\ die_area = [min_x |-> 0, min_y |-> 0, max_x |-> 20000, max_y |-> 20000]
    /\ cells = <<Cell("IO_VIRTUAL_CELL", 0, 0, TRUE)>>
    /\ positions = <<Pt(0, 0)>>
    /\ LegIdle
    /\ NesIdle
    /\ AStarIdle
    /\ DrIdle
    /\ FlowIdle
    /\ WlIdle
    /\ GrIdle
    /\ SolverIdle
    /\ OracleIdle
    /\ SpatialIdle
    /\ ExtractIdle
    /\ ChkIdle
    /\ \E design \in VerDesigns :
          /\ nets = design[1]
          /\ route_segments = design[2]
    /\ ver_result = VerNone
    /\ ver_runs = <<>>

VerNext == check_shorts_and_loops \/ check_run

SpecVerifier == VerInit /\ [][VerNext]_vars

\* C9: once the short check has run, it has reported a SHORT whenever two
\* segments of different nets on one layer intersect (Segment::intersects,
\* which allows the 5 nm tolerance), wherever the segments lie.
C9_ShortsReported ==
    ver_result.kind # "none" =>
        ((\E a, b \in SegIds :
              /\ a[1] # b[1]
              /\ intersects(SegAt(a), SegAt(b)))
         => ver_result.kind = "SHORT")

\* C15: two calls of check::run on the same unchanged netlist return the
\* same value: both Ok, or both Err with the same text.
C15_SameResultTwice ==
    Len(ver_runs) >= 2 => ver_runs[1] = ver_runs[2]

\* C17: the Err value of check::run carries exactly one message, also when
\* the short check and the open check both fail.
C17_SingleDiagnostic ==
    \A k \in DOMAIN ver_runs : Len(ver_runs[k]) <= 1

----------------------------------------------------------------------------
(* The flow command of the command line: run_placement, then run_routing.  *)
(* run_placement works on the database it loaded; run_routing builds a    *)
(* new database from the placed DEF file, so the routed nets are drawn     *)
(* afresh from the verifier's designs.  optimize is kept as its last step, *)
(* the clamping of every movable cell into the die.                        *)

flowRest == <<legVars, nesVars, asVars, drVars, wl, gr, solver, oracle, spatial, extract, chk>>

FlowStages ==
    <<"global placement", "legalisation", "global routing", "detailed routing",
      "verification">>

\* A stage has run and the flow goes on at pc
FlowStep(stage, pc) == [flow EXCEPT !.pc = pc, !.stages = Append(@, stage)]

\* The flow ends: Ok(()) from main, or std::process::exit(1)
FlowExit(stage, result) ==
    [pc |-> "exit", stages |-> Append(flow.stages, stage), result |-> result]

\* run_placement: solver.optimize, which returns Ok
flow_optimize ==
    /\ flow.pc = "place"
    /\ positions' = [i \in DOMAIN cells |-> PlacedAt(die_area, cells[i], positions[i])]
    /\ flow' = FlowStep("global placement", "legalize")
    /\ UNCHANGED <<dbVars, verVars, flowRest>>

\* run_placement: legalizer.legalize, then run_placement_check and `?`
flow_legalize ==
    /\ flow.pc = "legalize"
    /\ \E rh \in RowHeightChoices : positions' = Legalize(positions, rh)
    /\ UNCHANGED <<dbVars, verVars, flowRest>>
    /\ flow' = IF PlacementCheckPasses'
               THEN FlowStep("legalisation", "route")
               ELSE FlowExit("legalisation", "Err")

\* run_routing: the placed DEF is parsed into a new database, and
\* eda_router::route calls global_router::run, which returns Ok
flow_global_route ==
    /\ flow.pc = "route"
    /\ die_area' = [min_x |-> 0, min_y |-> 0, max_x |-> 20000, max_y |-> 20000]
    /\ cells' = <<Cell("IO_VIRTUAL_CELL", 0, 0, TRUE)>>
    /\ positions' = <<Pt(0, 0)>>
    /\ \E design \in VerDesigns : nets' = design[1]
    /\ flow' = FlowStep("global routing", "detailed_route")
    /\ UNCHANGED <<verVars, flowRest>>

\* eda_router::route: detailed_router::run writes the route segments and
\* returns Ok
flow_detailed_route ==
    /\ flow.pc = "detailed_route"
    /\ \E design \in VerDesigns :
          /\ design[1] = nets
          /\ route_segments' = design[2]
    /\ flow' = FlowStep("detailed routing", "verify")
    /\ UNCHANGED <<dbVars, positions, ver_result, ver_runs, flowRest>>

\* run_routing: check::run and `?`
flow_verify ==
    /\ flow.pc = "verify"
    /\ \E shorts_result \in ShortCheckResults, opens_result \in OpenCheckResults :
          /\ ver_runs' = <<run_msgs(shorts_result, opens_result)>>
          /\ flow' = FlowExit("verification",
                              IF ver_runs'[1] = <<>> THEN "Ok" ELSE "Err")
    /\ UNCHANGED <<dbVars, positions, route_segments, ver_result, flowRest>>

FlowInit ==
    /\ \E design \in LegDesigns :
          /\ die_area = design[1]
          /\ cells = [i \in 1..3 |-> design[2][i][1]]
          /\ positions = [i \in 1..3 |-> design[2][i][2]]
    /\ nets = <<>>
    /\ LegIdle
    /\ NesIdle
    /\ VerIdle
    /\ AStarIdle
    /\ DrIdle
    /\ WlIdle
    /\ GrIdle
    /\ SolverIdle
    /\ OracleIdle
    /\ SpatialIdle
    /\ ExtractIdle
    /\ ChkIdle
    /\ flow = [pc |-> "place", stages |-> <<>>, result |-> "none"]

FlowNext ==
    \/ flow_optimize
    \/ flow_legalize
    \/ flow_global_route
    \/ flow_detailed_route
    \/ flow_verify

SpecFlow == FlowInit /\ [][FlowNext]_vars

\* C12: the stages run in the order global placement, legalisation, global
\* routing, detailed routing, verification; every stage before verification
\* is followed by the next one whatever its outcome, and the flow ends in an
\* error only through a failed verification.
C12_StagesInOrder ==
    /\ flow.stages = SubSeq(FlowStages, 1, Len(flow.stages))
    /\ flow.pc = "exit" => flow.stages = FlowStages
    /\ flow.result = "Err" => (flow.stages = FlowStages /\ ver_runs[1] # <<>>)

----------------------------------------------------------------------------
(* The A* kernel, router/src/algo/astar.rs, on DenseGrid.  Costs are the   *)
(* i64 values the code accumulates (cost * 100).  The grid's cost_cache    *)
(* and the penalties are in thousandths; heuristic_weight and              *)
(* margin_multiplier are in tenths.                                        *)

Tenths == 10
Milli  == 1000

GridCoord(x, y, z) == [x |-> x, y |-> y, z |-> z]

GridNodes(g) ==
    {GridCoord(x, y, z) : x \in 0..(g.width - 1), y \in 0..(g.height - 1),
                          z \in 0..(g.layers - 1)}

\* DenseGrid::is_obstacle
is_obstacle(c) ==
    \/ c.x >= grid.width
    \/ c.y >= grid.height
    \/ c.z >= grid.layers
    \/ c \in grid.obstacles

\* DenseGrid::get_cost: the cache, and 100 times the cache on layer 0
get_cost(c) ==
    IF c.z = 0 THEN grid.cost_cache[c] * 100 ELSE grid.cost_cache[c]

State(f, g, c) == [f_score |-> f, g_score |-> g, index |-> c]

\* A heap that hands out the entry of greatest f_score first
HeapTopsGreatestF(h) ==
    {s \in h : \A t \in h : s.f_score >= t.f_score}

\* Ord for State: BinaryHeap::pop hands out an entry of least f_score and,
\* among those, of greatest g_score; which of several such is not determined
HeapTops(h) ==
    {s \in h : \A t \in h :
        \/ s.f_score < t.f_score
        \/ (s.f_score = t.f_score /\ s.g_score >= t.g_score)}

\* RoutingWindow::new
RoutingWindow(starts, end, margin, grid_w, grid_h) ==
    LET xs == {end.x} \cup {starts[i].x : i \in DOMAIN starts}
        ys == {end.y} \cup {starts[i].y : i \in DOMAIN starts}
    IN [min_x |-> Max(SetMin(xs) - margin, 0),
        max_x |-> Min(SetMax(xs) + margin, grid_w - 1),
        min_y |-> Max(SetMin(ys) - margin, 0),
        max_y |-> Min(SetMax(ys) + margin, grid_h - 1)]

\* RoutingWindow::contains
contains(w, c) ==
    c.x >= w.min_x /\ c.x <= w.max_x /\ c.y >= w.min_y /\ c.y <= w.max_y

\* The window of the running call
window ==
    RoutingWindow(call.starts, call.end,
                  (call.base_margin * call.margin_multiplier) \div Tenths,
                  grid.width, grid.height)

\* GuideOracle::is_in_guide
is_in_guide(c) == c \in call.guide

\* AStar::heuristic, scaled and truncated as find_path uses it: (h * scale) as i64
heuristic(a, end, weight) ==
    ((Abs(a.x - end.x) + Abs(a.y - end.y) + Abs(a.z - end.z) * 5) * weight * 100)
        \div Tenths

\* (500.0 + collision_penalty * 2.0) * scale, in thousandths
guide_penalty     == (500 * Milli + call.collision_penalty * 2) * 100
layer_change_cost == 1000
wrong_dir_cost    == 2500
base_move_cost    == 100

\* The up to six neighbours find_path collects for a position
neighbors(position) ==
    {n \in GridNodes(grid) :
        Abs(n.x - position.x) + Abs(n.y - position.y) + Abs(n.z - position.z) = 1}

\* A neighbour loop that skips nothing
passes_filters_always(neighbor) == TRUE

is_allowed(neighbor) ==
    \E p \in call.allowed_pins :
        \/ p = neighbor
        \/ (p.z = neighbor.z
            /\ Abs(p.x - neighbor.x) + Abs(p.y - neighbor.y) <= 1)

\* The three "continue" filters at the head of find_path's neighbour loop
passes_filters(neighbor) ==
    /\ contains(window, neighbor)
    /\ ~(call.strict_mode /\ ~is_in_guide(neighbor) /\ neighbor # call.end)
    /\ ~(is_obstacle(neighbor) /\ neighbor # call.end /\ ~is_allowed(neighbor))

step_guide_cost(neighbor) ==
    IF neighbor = call.end \/ is_in_guide(neighbor) THEN 0 ELSE guide_penalty

step_move_cost(position, neighbor) ==
    LET dist_to_end == Abs(neighbor.x - call.end.x) + Abs(neighbor.y - call.end.y)
        is_near_pin == dist_to_end < 2
        wrong_way   == IF is_near_pin THEN base_move_cost * 2 ELSE wrong_dir_cost
        move ==
            IF position.z # neighbor.z
            THEN IF position.z = 0 \/ neighbor.z = 0 THEN 1 ELSE layer_change_cost
            ELSE IF position.z < Len(db_layers)
            THEN IF db_layers[position.z + 1] = "V" /\ position.x # neighbor.x
                 THEN wrong_way
                 ELSE IF db_layers[position.z + 1] = "H" /\ position.y # neighbor.y
                 THEN wrong_way
                 ELSE base_move_cost
            ELSE base_move_cost
    IN  move + (IF position.z = 0 /\ neighbor.z = 0 THEN 1000 ELSE 0)

\* (grid.get_cost(neighbor) - 1.0) * scale, in thousandths
node_cost(neighbor) ==
    IF neighbor = call.end THEN 0 ELSE (get_cost(neighbor) - Milli) * 100

\* total_cost as i64
total_cost(position, neighbor) ==
    (step_move_cost(position, neighbor) * Milli + step_guide_cost(neighbor)
        + node_cost(neighbor)) \div Milli

NoParent == [x |-> -1, y |-> -1, z |-> -1]

\* AStar::reconstruct_path
RECURSIVE PathTo(_)
PathTo(c) ==
    IF parents[c] = NoParent THEN <<c>> ELSE Append(PathTo(parents[c]), c)

reconstruct_path(end) == PathTo(end)

FindNone == [kind |-> "None", path |-> <<>>]
FindSome(p) == [kind |-> "Some", path |-> p]
FindPending == [kind |-> "none", path |-> <<>>]

\* find_path up to its main loop
find_path_enter ==
    /\ as_pc = "call"
    /\ IF call.starts = <<>>
       THEN /\ as_result' = FindNone
            /\ as_pc' = "done"
            /\ UNCHANGED <<heap, g_score, parents>>
       ELSE LET in_window == {s \in Range(call.starts) : contains(window, s)}
            IN  /\ g_score' = [s \in in_window |-> 0]
                /\ parents' = [s \in in_window |-> NoParent]
                /\ heap' = {State(heuristic(s, call.end, call.heuristic_weight), 0, s) :
                                s \in in_window}
                /\ as_pc' = "loop"
                /\ UNCHANGED as_result
    /\ expansions' = 0
    /\ UNCHANGED <<db_layers, grid, call, asRest>>

\* One turn of find_path's "while let Some(..) = heap.pop()" loop
find_path_pop ==
    /\ as_pc = "loop"
    /\ heap # {}
    /\ \E top \in HeapTops(heap) :
        LET position  == top.index
            current_g == g_score[position]
            tentative_g(q) == current_g + total_cost(position, q)
            relaxed == {q \in neighbors(position) :
                           /\ passes_filters(q)
                           /\ (q \notin DOMAIN g_score \/ tentative_g(q) < g_score[q])}
        IN  IF top.f_score >
                   g_score[position] + heuristic(position, call.end, call.heuristic_weight)
            THEN /\ heap' = heap \ {top}
                 /\ UNCHANGED <<g_score, parents, expansions, as_pc, as_result>>
            ELSE IF position = call.end
            THEN /\ as_result' = FindSome(reconstruct_path(call.end))
                 /\ as_pc' = "done"
                 /\ heap' = heap \ {top}
                 /\ UNCHANGED <<g_score, parents, expansions>>
            ELSE IF expansions + 1 > call.max_expansions
            THEN /\ as_result' = FindNone
                 /\ as_pc' = "done"
                 /\ expansions' = expansions + 1
                 /\ heap' = heap \ {top}
                 /\ UNCHANGED <<g_score, parents>>
            ELSE /\ expansions' = expansions + 1
                 /\ g_score' = [n \in DOMAIN g_score \cup relaxed |->
                                   IF n \in relaxed THEN tentative_g(n) ELSE g_score[n]]
                 /\ parents' = [n \in DOMAIN parents \cup relaxed |->
                                   IF n \in relaxed THEN position ELSE parents[n]]
                 /\ heap' = (heap \ {top}) \cup
                        {State(tentative_g(q)
                                 + heuristic(q, call.end, call.heuristic_weight),
                               tentative_g(q), q) : q \in relaxed}
                 /\ UNCHANGED <<as_pc, as_result>>
    /\ UNCHANGED <<db_layers, grid, call, asRest>>

\* The loop ends with the heap empty: find_path returns None
find_path_exhausted ==
    /\ as_pc = "loop"
    /\ heap = {}
    /\ as_result' = FindNone
    /\ as_pc' = "done"
    /\ UNCHANGED <<db_layers, grid, call, heap, g_score, parents, expansions, asRest>>

----------------------------------------------------------------------------
(* The kernel's specification: one find_path call on a 3 x 2 grid of one   *)
(* or two layers, from a connected tree in the left columns to a pin in    *)
(* the right column                                                        *)

\* The number of routing layers both routers derive from NetlistDB.layers
LayerCount(ls) == IF ls = <<>> THEN 2 ELSE Len(ls)

\* A fresh node costs 1.0; a node at capacity under penalty 1.5 with one
\* wire too many costs 1.0 + 2 * 1.5
CostCacheOf(g, busy) == [c \in GridNodes(g) |-> IF c \in busy THEN 4000 ELSE 1000]

AStarTrees(z) ==
    {<<>>, <<GridCoord(0, 0, z)>>, <<GridCoord(0, 0, z), GridCoord(0, 1, z)>>,
     <<GridCoord(0, 0, z), GridCoord(0, 1, z), GridCoord(1, 1, z)>>}

AStarGuides(g) ==
    {[strict_mode |-> FALSE, guide |-> GridNodes(g)],
     [strict_mode |-> FALSE, guide |-> {c \in GridNodes(g) : c.y = 0}],
     [strict_mode |-> TRUE,  guide |-> {c \in GridNodes(g) : c.y = 0}]}

AStarInit ==
    /\ DbIdle
    /\ LegIdle
    /\ NesIdle
    /\ VerIdle
    /\ DrIdle
    /\ FlowIdle
    /\ WlIdle
    /\ GrIdle
    /\ SolverIdle
    /\ OracleIdle
    /\ SpatialIdle
    /\ ExtractIdle
    /\ ChkIdle
    /\ \E ls \in {<<>>, <<"V">>, <<"H", "V">>}, pz \in {0, 1},
          obs \in SUBSET {<<1, 0>>, <<1, 1>>}, busy \in SUBSET {<<1, 0>>, <<1, 1>>},
          w \in {0, 10, 50}, m \in {0, 1}, budget \in {1, 300000},
          with_pins \in BOOLEAN :
        LET g == [width |-> 3, height |-> 2, layers |-> LayerCount(ls)]
            end == GridCoord(2, 0, pz)
        IN  /\ pz < g.layers
            /\ db_layers = ls
            /\ grid = [width |-> g.width, height |-> g.height, layers |-> g.layers,
                       obstacles |-> {GridCoord(o[1], o[2], 0) : o \in obs},
                       cost_cache |->
                           CostCacheOf(g, {GridCoord(b[1], b[2], pz) : b \in busy})]
            /\ \E tree \in AStarTrees(pz), gd \in AStarGuides(g) :
                  call = [starts |-> tree, end |-> end,
                          collision_penalty |-> 1500,
                          heuristic_weight |-> w,
                          base_margin |-> m, margin_multiplier |-> 10,
                          guide |-> gd.guide, strict_mode |-> gd.strict_mode,
                          allowed_pins |->
                              IF with_pins THEN {GridCoord(0, 0, pz), end} ELSE {},
                          max_expansions |-> budget]
            \* the callers start from pins and from nodes of earlier paths
            /\ \A i \in DOMAIN call.starts :
                  ~is_obstacle(call.starts[i]) \/ is_allowed(call.starts[i])
    /\ heap = {}
    /\ g_score = <<>>
    /\ parents = <<>>
    /\ expansions = 0
    /\ as_pc = "call"
    /\ as_result = FindPending

AStarNext == find_path_enter \/ find_path_pop \/ find_path_exhausted

SpecAStar == AStarInit /\ [][AStarNext]_vars

\* The cost find_path accumulates along a path
RECURSIVE PathCost(_)
PathCost(p) ==
    IF Len(p) < 2 THEN 0
    ELSE total_cost(p[1], p[2]) + PathCost(Tail(p))

\* Least cost of a path from the start set to each node of the window that
\* takes only steps find_path does not skip, as a set of <<node, cost>>
\* pairs over the nodes that can be reached, after k rounds of relaxation
RECURSIVE LeastCosts(_, _, _)
LeastCosts(nodes, d, k) ==
    IF k = 0 THEN d
    ELSE LET cands == d \cup
                 {<<q, e[2] + total_cost(e[1], q)>> :
                     <<e, q>> \in {t \in d \X nodes :
                                     t[2] \in neighbors(t[1][1]) /\ passes_filters(t[2])}}
             best == {c \in cands : \A o \in cands : o[1] = c[1] => c[2] <= o[2]}
         IN  LeastCosts(nodes, best, k - 1)

\* The least cost of reaching the target, -1 if it cannot be reached
MinimumCost ==
    LET nodes == {c \in GridNodes(grid) : contains(window, c)}
        d0 == {<<c, 0>> : c \in nodes \cap Range(call.starts)}
        d  == LeastCosts(nodes, d0, Cardinality(nodes))
        at_end == {e[2] : e \in {t \in d : t[1] = call.end}}
    IN  IF at_end = {} THEN -1 ELSE SetMin(at_end)

\* C7 as stated: whatever the heuristic weight, a returned path has the
\* least total cost among the paths from the start set to the target that
\* stay in the window and respect the obstacle and strict-guide rules.
C7_MinimumCost ==
    as_result.kind = "Some" => PathCost(as_result.path) = MinimumCost

\* C7 amended: with heuristic weight 0 (no heuristic, Dijkstra's order) a
\* returned path has the least total cost among the paths from the start
\* set to the target that stay in the window and respect the obstacle and
\* strict-guide rules.
C7_MinimumCostWithoutHeuristic ==
    (as_result.kind = "Some" /\ call.heuristic_weight = 0)
        => PathCost(as_result.path) = MinimumCost

\* A search without heuristic returned a path that is longer than the
\* shortest way to the target, because it is cheaper
C7_Witness ==
    /\ as_result.kind = "Some"
    /\ call.heuristic_weight = 0
    /\ Len(as_result.path) > 3
    /\ as_result.path[1] = GridCoord(0, 0, call.end.z)

\* C8: a returned path starts in the start set, ends at the target, moves
\* by one grid step at a time, stays in the window, enters an obstacle only
\* at the target or at or next to an allowed pin, and in strict mode leaves
\* the guide only at its first node and at the target.  The start set is
\* what the routers pass: pins and nodes of earlier paths, none of them an
\* obstacle away from the allowed pins.
C8_WellFormed ==
    as_result.kind = "Some" =>
        LET p == as_result.path
            w == RoutingWindow(call.starts, call.end,
                               (call.base_margin * call.margin_multiplier) \div Tenths,
                               grid.width, grid.height)
        IN  /\ Len(p) >= 1
            /\ p[1] \in Range(call.starts)
            /\ p[Len(p)] = call.end
            /\ \A i \in 1..(Len(p) - 1) :
                  Abs(p[i].x - p[i + 1].x) + Abs(p[i].y - p[i + 1].y)
                      + Abs(p[i].z - p[i + 1].z) = 1
            /\ \A i \in DOMAIN p :
                  /\ p[i] \in GridNodes(grid)
                  /\ contains(w, p[i])
                  /\ (p[i] # call.end /\ is_obstacle(p[i])) => is_allowed(p[i])
                  /\ (call.strict_mode /\ i > 1 /\ p[i] # call.end)
                        => is_in_guide(p[i])

\* A strict-mode search returned a path of several steps through an
\* obstacle next to an allowed pin
C8_Witness ==
    /\ as_result.kind = "Some"
    /\ call.strict_mode
    /\ Len(as_result.path) >= 3
    /\ \E i \in DOMAIN as_result.path :
          as_result.path[i] # call.end /\ is_obstacle(as_result.path[i])

----------------------------------------------------------------------------
(* The detailed router, router/src/detailed_router.rs, with the DenseGrid  *)
(* it routes on.  Lengths are whole nanometres as in the verifier; the     *)
(* penalties and the cached node costs are in thousandths, history         *)
(* increments in tenths, the quantised history in its own u16 units.  The  *)
(* configurations below keep every such quantity a whole number, so the    *)
(* arithmetic is the code's.                                               *)

MaxIterations == 4

\* DenseGrid::new
DenseGridNew(width, height, layer_count, default_capacity) ==
    LET nodes == GridNodes([width |-> width, height |-> height, layers |-> layer_count])
    IN  [width |-> width, height |-> height, layers |-> layer_count,
         obstacles |-> {},
         occupancy |-> [c \in nodes |-> 0],
         history |-> [c \in nodes |-> 0],
         cost_cache |-> [c \in nodes |-> Milli],
         current_penalty |-> Milli,
         capacity |-> default_capacity]

\* DenseGrid::update_cache_at: the cost it stores for a node
update_cache_at(g, c) ==
    LET base_cost == Milli + g.history[c] * 100
        congestion_cost ==
            IF g.occupancy[c] >= g.capacity
            THEN (g.occupancy[c] - g.capacity + 1) * g.current_penalty
            ELSE 0
    IN  base_cost + congestion_cost

\* DenseGrid::add_wire on every node of a net
add_wire(g, occupied) ==
    LET g1 == [g EXCEPT !.occupancy =
                  [c \in DOMAIN g.occupancy |->
                      IF c \in occupied THEN g.occupancy[c] + 1 ELSE g.occupancy[c]]]
    IN  [g1 EXCEPT !.cost_cache =
            [c \in DOMAIN g.cost_cache |->
                IF c \in occupied THEN update_cache_at(g1, c) ELSE g.cost_cache[c]]]

\* DenseGrid::remove_wire on every node of a net
remove_wire(g, occupied) ==
    LET g1 == [g EXCEPT !.occupancy =
                  [c \in DOMAIN g.occupancy |->
                      IF c \in occupied /\ g.occupancy[c] > 0
                      THEN g.occupancy[c] - 1 ELSE g.occupancy[c]]]
    IN  [g1 EXCEPT !.cost_cache =
            [c \in DOMAIN g.cost_cache |->
                IF c \in occupied THEN update_cache_at(g1, c) ELSE g.cost_cache[c]]]

\* DenseGrid::set_penalty
set_penalty(g, penalty) ==
    LET g1 == [g EXCEPT !.current_penalty = penalty]
    IN  [g1 EXCEPT !.cost_cache = [c \in DOMAIN g.cost_cache |-> update_cache_at(g1, c)]]

\* DenseGrid::update_history; the increment is in tenths, and the cost cache
\* is left as it was
update_history(g, history_increment) ==
    [g EXCEPT !.history =
        [c \in DOMAIN g.history |->
            IF g.occupancy[c] > g.capacity
            THEN Min(65535, g.history[c] + (g.occupancy[c] - g.capacity) * history_increment)
            ELSE g.history[c]]]

\* DenseGrid::decay_history(0.5): factor = 512, h = (history * factor) >> 10
decay_history(g) ==
    set_penalty([g EXCEPT !.history =
                    [c \in DOMAIN g.history |-> (g.history[c] * 512) \div 1024]],
                g.current_penalty)

\* DenseGrid::is_congested
is_congested(g, c) == g.occupancy[c] > g.capacity

\* DenseGrid::total_conflicts
total_conflicts(g) == Cardinality({c \in DOMAIN g.occupancy : is_congested(g, c)})

\* GridConverter: scale_x = num_x / den_x, scale_y = num_y / den_y
from_steps(step_x, step_y, off_x, off_y, grid_w, grid_h) ==
    [num_x |-> 1, den_x |-> step_x, num_y |-> 1, den_y |-> step_y,
     offset_x |-> off_x, offset_y |-> off_y, grid_w |-> grid_w, grid_h |-> grid_h]

\* GridConverter::new
GridConverterNew(die_w, die_h, grid_w, grid_h) ==
    [num_x |-> grid_w, den_x |-> die_w, num_y |-> grid_h, den_y |-> die_h,
     offset_x |-> 0, offset_y |-> 0, grid_w |-> grid_w, grid_h |-> grid_h]

\* GridConverter::to_grid
to_grid(conv, p, layer) ==
    LET raw_x == RoundDiv((p.x - conv.offset_x) * conv.num_x, conv.den_x)
        raw_y == RoundDiv((p.y - conv.offset_y) * conv.num_y, conv.den_y)
    IN  GridCoord(Min(Max(raw_x, 0), conv.grid_w - 1),
                  Min(Max(raw_y, 0), conv.grid_h - 1), layer)

\* GridConverter::to_world
to_world(conv, g) ==
    Pt((g.x * conv.den_x) \div conv.num_x + conv.offset_x,
       (g.y * conv.den_y) \div conv.num_y + conv.offset_y)

\* Rect::width and Rect::height of the die
die_w == die_area.max_x - die_area.min_x
die_h == die_area.max_y - die_area.min_y

\* run: without tracks the step is the pitch of the first layer, 1.0 here,
\* and the offset is 0
step_x == 1000
step_y == 1000

grid_w == CeilDiv(die_w, step_x)
grid_h == CeilDiv(die_h, step_y)

converter == from_steps(step_x, step_y, 0, 0, grid_w, grid_h)

\* run: the nodes of layer 0 every cell covers
CellObstacles ==
    UNION {LET lo == to_grid(converter, positions[i], 0)
               hi == to_grid(converter,
                             Pt(positions[i].x + cells[i].width,
                                positions[i].y + cells[i].height), 0)
           IN  {GridCoord(x, y, 0) :
                   x \in Min(lo.x, grid_w - 1)..Min(hi.x, grid_w - 1),
                   y \in Min(lo.y, grid_h - 1)..Min(hi.y, grid_h - 1)}
           : i \in DOMAIN cells}

\* The grid node of a pin, as run and route_net_dr_pure both compute it;
\* 0.001 is 1 nm
pin_coord(pin) ==
    LET pos == get_pin_position(pin)
        is_io == pos.x <= 1 \/ pos.x >= die_w - 1 \/ pos.y <= 1 \/ pos.y >= die_h - 1
        layer == IF is_io THEN 2 ELSE 1
        safe_layer == Min(layer, grid.layers - 1)
    IN  to_grid(converter, pos, safe_layer)

\* The global router's grid is gcell_size cells wide and high
gcell_size == 1
coarse_converter == GridConverterNew(die_w, die_h, gcell_size, gcell_size)

\* FastGuideOracle::new, prepare and is_in_guide: the nodes in the guide
FastGuideOracle(gd) ==
    LET coarse_max == to_grid(coarse_converter, Pt(die_w, die_h), 0)
        coarse_w == coarse_max.x + 1
        coarse_h == coarse_max.y + 1
        x_map(x) == Min(to_grid(coarse_converter,
                                to_world(converter, GridCoord(x, 0, 0)), 0).x,
                        coarse_w - 1)
        y_map(y) == Min(to_grid(coarse_converter,
                                to_world(converter, GridCoord(0, y, 0)), 0).y,
                        coarse_h - 1)
        marked == {<<g.x + d[1], g.y + d[2], g.z>> :
                      g \in {e \in gd : e.z < grid.layers},
                      d \in {e \in (-1..1) \X (-1..1) : TRUE}}
        allow_all == gd = {}
    IN  {c \in GridNodes(grid) :
            allow_all \/ <<x_map(c.x), y_map(c.y), c.z>> \in marked}

\* NoGuide::is_in_guide holds everywhere
NoGuide == GridNodes(grid)

\* route_net_dr_pure: the grid node of every pin of the net
pin_coords(net) == [i \in DOMAIN net |-> pin_coord(net[i])]

\* route_net_dr_pure: the pins after the first, each the nearest to the one
\* before it (the first of several nearest ones)
RECURSIVE NearestOrder(_, _, _)
NearestOrder(coords, current_idx, pin_indices) ==
    IF pin_indices = <<>> THEN <<>>
    ELSE LET dist(k) == Abs(coords[current_idx].x - coords[pin_indices[k]].x)
                          + Abs(coords[current_idx].y - coords[pin_indices[k]].y)
             best_k == CHOOSE k \in DOMAIN pin_indices :
                           /\ \A j \in DOMAIN pin_indices : dist(k) <= dist(j)
                           /\ \A j \in 1..(k - 1) : dist(j) > dist(k)
             rest == [j \in 1..(Len(pin_indices) - 1) |->
                         IF j < best_k THEN pin_indices[j] ELSE pin_indices[j + 1]]
         IN  <<pin_indices[best_k]>> \o NearestOrder(coords, pin_indices[best_k], rest)

sorted_indices(coords) ==
    <<1>> \o NearestOrder(coords, 1, [j \in 1..(Len(coords) - 1) |-> j + 1])

RnIdle == [active |-> FALSE]

\* The locals of route_net_dr_pure before its loop over the targets
RnEnter(net_id, penalty, ripup_count, strict_mode) ==
    LET coords == pin_coords(nets[net_id])
    IN  [active |-> TRUE, net_id |-> net_id, penalty |-> penalty,
         ripup_count |-> ripup_count, strict_mode |-> strict_mode,
         pin_coords |-> coords, sorted_indices |-> sorted_indices(coords),
         i |-> 2, tree_nodes |-> <<coords[1]>>, paths |-> <<>>,
         occupied_set |-> {coords[1]}, fallback |-> FALSE]

\* The arguments of route_net_dr_pure's first find_path call for the target
\* at hand, and of the call it falls back to
FindPathCall(r, fallback) ==
    [starts |-> r.tree_nodes,
     end |-> r.pin_coords[r.sorted_indices[r.i]],
     collision_penalty |-> r.penalty,
     heuristic_weight |-> dr_config.astar_heuristic_weight,
     base_margin |-> IF fallback THEN dr_config.astar_window_margin_max
                     ELSE dr_config.astar_window_margin_base,
     margin_multiplier |-> IF fallback THEN Tenths ELSE Tenths + 2 * r.ripup_count,
     guide |-> IF fallback THEN NoGuide ELSE FastGuideOracle(guides[r.net_id]),
     strict_mode |-> r.strict_mode,
     allowed_pins |-> Range(r.pin_coords),
     max_expansions |-> (300000 + r.ripup_count * 10000) * (IF fallback THEN 2 ELSE 1)]

\* SpatialSet::new(grid_w, grid_h, 60)
SPATIAL_BIN_SIZE == 60

\* SpatialSet::try_insert: the bins a bounding box reaches
SpatialBins(bbox) ==
    LET w == CeilDiv(grid.width, SPATIAL_BIN_SIZE)
        h == CeilDiv(grid.height, SPATIAL_BIN_SIZE)
    IN  {<<x, y>> : x \in (Max(bbox.min_x, 0) \div SPATIAL_BIN_SIZE)
                            ..Min(Max(bbox.max_x, 0) \div SPATIAL_BIN_SIZE, w - 1),
                    y \in (Max(bbox.min_y, 0) \div SPATIAL_BIN_SIZE)
                            ..Min(Max(bbox.max_y, 0) \div SPATIAL_BIN_SIZE, h - 1)}

\* run: the bounding box of a net to reroute, from its wires or, without
\* wires, from its pins, widened by 5
BoundingBox(net_id) ==
    LET pts == IF net_paths[net_id] # {} THEN net_paths[net_id]
               ELSE {to_grid(converter, get_pin_position(nets[net_id][i]), 0) :
                        i \in DOMAIN nets[net_id]}
    IN  [min_x |-> SetMin({c.x : c \in pts}) - 5, max_x |-> SetMax({c.x : c \in pts}) + 5,
         min_y |-> SetMin({c.y : c \in pts}) - 5, max_y |-> SetMax({c.y : c \in pts}) + 5]

\* run: one turn of "while !candidates.is_empty()": the candidates whose bins
\* are free join the batch, in their order; the others remain
RECURSIVE FormBatch(_, _, _, _)
FormBatch(candidates, marked, batch, remaining) ==
    IF candidates = <<>> THEN [batch |-> batch, remaining |-> remaining]
    ELSE LET bins == SpatialBins(dr.bbox[Head(candidates)])
         IN  IF bins \cap marked = {}
             THEN FormBatch(Tail(candidates), marked \cup bins,
                            Append(batch, Head(candidates)), remaining)
             ELSE FormBatch(Tail(candidates), marked, batch,
                            Append(remaining, Head(candidates)))

\* run: net_indices.chunks(batch_size), the chunk at the head and the rest
FirstChunk(s, batch_size) ==
    [batch |-> SubSeq(s, 1, Min(batch_size, Len(s))),
     remaining |-> SubSeq(s, Min(batch_size, Len(s)) + 1, Len(s))]

\* A rip-up that leaves the wires of the batch on the grid
RemoveBatchKept(g, batch) == g

\* run: the wires of every net of a rip-up batch are removed
RECURSIVE RemoveBatch(_, _)
RemoveBatch(g, batch) ==
    IF batch = <<>> THEN g
    ELSE RemoveBatch(remove_wire(g, net_paths[Head(batch)]), Tail(batch))

\* run before par_iter: the next chunk of the initial route under the
\* chunk's penalty, or the next batch of a rip-up iteration, whose wires are
\* removed.  batch_grid keeps the grid the parallel part is given.
next_batch ==
    /\ dr.pc = "batch"
    /\ LET initial == dr.phase = "initial"
           batch_penalty == IF dr.b_idx = 0 THEN 500 ELSE 1500
           formed == IF initial THEN FirstChunk(dr.queue, dr.batch_size)
                     ELSE FormBatch(dr.queue, {}, <<>>, <<>>)
           g1 == IF initial THEN set_penalty(grid, batch_penalty)
                 ELSE RemoveBatch(grid, formed.batch)
       IN  /\ grid' = g1
           /\ dr' = [dr EXCEPT !.pc = "route", !.batch = formed.batch,
                               !.queue = formed.remaining, !.results = <<>>,
                               !.batch_grid = g1]
    /\ UNCHANGED <<drRest, route_segments, net_paths, net_topologies, ripup_counts, rn,
                   call, heap, g_score, parents, expansions, as_pc, as_result>>

\* What route_net_dr_pure returns
ResNone == [kind |-> "None", occupied |-> {}, topology |-> <<>>]
ResSome(occupied, topology) ==
    [kind |-> "Some", occupied |-> occupied, topology |-> topology]

\* A batch whose wires are added while its nets are still being routed
DrCollectApplied(d, g, net_id, res) ==
    [dr |-> [d EXCEPT !.results = Append(@, <<net_id, res>>),
                      !.failed = IF res.kind = "None" THEN @ \cup {net_id}
                                 ELSE @ \ {net_id}],
     grid |-> IF res.kind = "Some" THEN add_wire(g, res.occupied) ELSE g]

\* run in par_iter: the closure returns (net_id, res) and collect keeps it;
\* the grid is only read.  failed keeps the nets whose latest result is None.
DrCollect(d, g, net_id, res) ==
    [dr |-> [d EXCEPT !.results = Append(@, <<net_id, res>>),
                      !.failed = IF res.kind = "None" THEN @ \cup {net_id}
                                 ELSE @ \ {net_id}],
     grid |-> g]

\* run after the results of a batch are applied: the next batch, or the
\* rip-up loop after the last chunk of the initial route, or the end of a
\* rip-up iteration
NextAfterBatch(d) ==
    IF d.queue # <<>> THEN [d EXCEPT !.pc = "batch", !.b_idx = @ + 1]
    ELSE IF d.phase = "initial"
    THEN [d EXCEPT !.pc = "loop", !.phase = "ripup", !.iter = 0,
                   !.collision_penalty = Max(dr_config.initial_penalty, 2500),
                   !.last_conflicts = -1, !.stagnation_counter = 0]
    ELSE [d EXCEPT !.pc = "loop", !.iter = @ + 1,
                   !.collision_penalty =
                       Min((@ * dr_config.penalty_multiplier) \div Tenths,
                           20000 * Milli)]

\* par_iter takes the next net of the batch: a net of fewer than two pins of
\* the initial route has no result; for any other net the first find_path
\* call of route_net_dr_pure is set up
route_next_net ==
    /\ dr.pc = "route"
    /\ ~rn.active
    /\ Len(dr.results) < Len(dr.batch)
    /\ LET net_id == dr.batch[Len(dr.results) + 1]
           initial == dr.phase = "initial"
           batch_penalty == IF dr.b_idx = 0 THEN 500 ELSE 1500
           r == IF initial THEN RnEnter(net_id, batch_penalty, 0, TRUE)
                ELSE RnEnter(net_id, dr.collision_penalty, ripup_counts[net_id], FALSE)
       IN  IF initial /\ Len(nets[net_id]) < 2
           THEN LET s == DrCollect(dr, grid, net_id, ResNone)
                IN  /\ dr' = s.dr
                    /\ grid' = s.grid
                    /\ UNCHANGED <<rn, call, as_pc>>
           ELSE /\ rn' = r
                /\ call' = FindPathCall(r, FALSE)
                /\ as_pc' = "call"
                /\ UNCHANGED <<dr, grid>>
    /\ UNCHANGED <<drRest, route_segments, net_paths, net_topologies, heap, g_score,
                   parents, expansions, as_result, ripup_counts>>

\* route_net_dr_pure after find_path returns: the path joins the tree and the
\* next target follows; or the call is repeated without guide in the widest
\* window; or the net fails.  After the last target the result is returned.
route_net_dr_pure ==
    /\ dr.pc = "route"
    /\ rn.active
    /\ as_pc = "done"
    /\ IF as_result.kind = "Some"
       THEN LET path == as_result.path
                r == [rn EXCEPT !.tree_nodes = @ \o path,
                                !.occupied_set = @ \cup Range(path),
                                !.paths = Append(@, path),
                                !.i = @ + 1,
                                !.fallback = FALSE]
            IN  IF r.i <= Len(r.sorted_indices)
                THEN /\ rn' = r
                     /\ call' = FindPathCall(r, FALSE)
                     /\ as_pc' = "call"
                     /\ UNCHANGED <<grid, dr>>
                ELSE LET s == DrCollect(dr, grid, r.net_id,
                                        ResSome(r.occupied_set, r.paths))
                     IN  /\ dr' = s.dr
                         /\ grid' = s.grid
                         /\ rn' = RnIdle
                         /\ as_pc' = "idle"
                         /\ UNCHANGED call
       ELSE IF ~rn.fallback
       THEN /\ rn' = [rn EXCEPT !.fallback = TRUE]
            /\ call' = FindPathCall(rn, TRUE)
            /\ as_pc' = "call"
            /\ UNCHANGED <<grid, dr>>
       ELSE LET s == DrCollect(dr, grid, rn.net_id, ResNone)
            IN  /\ dr' = s.dr
                /\ grid' = s.grid
                /\ rn' = RnIdle
                /\ as_pc' = "idle"
                /\ UNCHANGED call
    /\ UNCHANGED <<drRest, route_segments, net_paths, net_topologies, heap, g_score,
                   parents, expansions, as_result, ripup_counts>>

\* An apply loop that leaves the stored paths of a net without result
RECURSIVE ApplyBatchKept(_, _, _, _)
ApplyBatchKept(g, paths, topologies, results) ==
    IF results = <<>>
    THEN [grid |-> g, net_paths |-> paths, net_topologies |-> topologies]
    ELSE LET net_id == Head(results)[1]
             res == Head(results)[2]
         IN  IF res.kind = "Some"
             THEN ApplyBatchKept(add_wire(g, res.occupied),
                                 [paths EXCEPT ![net_id] = res.occupied],
                                 [topologies EXCEPT ![net_id] = res.topology],
                                 Tail(results))
             ELSE ApplyBatchKept(g, paths, topologies, Tail(results))

\* run after par_iter: the results in the order collect returned them; the
\* wires of a routed net are added and its paths stored, the paths of a net
\* without result are cleared
RECURSIVE ApplyBatch(_, _, _, _)
ApplyBatch(g, paths, topologies, results) ==
    IF results = <<>>
    THEN [grid |-> g, net_paths |-> paths, net_topologies |-> topologies]
    ELSE LET net_id == Head(results)[1]
             res == Head(results)[2]
         IN  IF res.kind = "Some"
             THEN ApplyBatch(add_wire(g, res.occupied),
                             [paths EXCEPT ![net_id] = res.occupied],
                             [topologies EXCEPT ![net_id] = res.topology],
                             Tail(results))
             ELSE ApplyBatch(g, [paths EXCEPT ![net_id] = {}],
                             [topologies EXCEPT ![net_id] = <<>>], Tail(results))

apply_batch ==
    /\ dr.pc = "route"
    /\ ~rn.active
    /\ Len(dr.results) = Len(dr.batch)
    /\ LET a == ApplyBatch(grid, net_paths, net_topologies, dr.results)
       IN  /\ grid' = a.grid
           /\ net_paths' = a.net_paths
           /\ net_topologies' = a.net_topologies
           /\ dr' = NextAfterBatch(dr)
    /\ UNCHANGED <<drRest, route_segments, ripup_counts, rn, call, heap, g_score,
                   parents, expansions, as_pc, as_result>>

\* The orders shuffle can leave a set of nets in
RECURSIVE Shuffles(_)
Shuffles(S) ==
    IF S = {} THEN {<<>>}
    ELSE UNION {{<<e>> \o t : t \in Shuffles(S \ {e})} : e \in S}

\* run leaves the rip-up loop
LoopExit(d, how) == [d EXCEPT !.pc = "emit", !.exit = how]

\* A scan that takes every net without a stored path as failed
failed_nets_any(paths) == {id \in DOMAIN nets : paths[id] = {}}

\* The nets of two pins or more without a stored path
failed_nets(paths) == {id \in DOMAIN nets : paths[id] = {} /\ Len(nets[id]) >= 2}

\* The head of one iteration of run's rip-up loop, up to the first batch, or
\* the way out of the loop.  -1 stands for usize::MAX in last_conflicts.
\* crossings keeps the iterations in which the counter came above the
\* threshold, decays those in which decay_history was called.
ripup_iteration ==
    /\ dr.pc = "loop"
    /\ LET failed == failed_nets(net_paths)
           conflicts == total_conflicts(grid) + Cardinality(failed)
           first == dr.last_conflicts = -1
           improvement == Max(dr.last_conflicts - conflicts, 0)
           threshold == Max(dr.last_conflicts \div 20, 5)
           stagnation_counter ==
               IF ~first /\ improvement < threshold
               THEN dr.stagnation_counter + 1 ELSE 0
           force_ripup == stagnation_counter > dr_config.stagnation_threshold
           d1 == [dr EXCEPT !.stagnation_counter = stagnation_counter,
                            !.last_conflicts = conflicts,
                            !.crossings =
                                IF force_ripup
                                   /\ dr.stagnation_counter <= dr_config.stagnation_threshold
                                THEN Append(@, dr.iter) ELSE @]
           history_increment == Max(dr_config.history_increment, Tenths)
           effective_history_inc ==
               IF force_ripup
               THEN (history_increment * dr_config.history_increment) \div Tenths
               ELSE history_increment
           g1 == update_history(grid, effective_history_inc)
           decay == force_ripup
                    /\ stagnation_counter = dr_config.stagnation_threshold + 1
           g2 == IF decay THEN decay_history(g1) ELSE g1
           g3 == set_penalty(g2, dr.collision_penalty)
           d2 == [d1 EXCEPT !.decays = IF decay THEN Append(@, dr.iter) ELSE @]
           occupied == UNION Range(net_paths)
           congested_nodes ==
               IF force_ripup THEN {c \in occupied : is_congested(g3, c)} ELSE {}
           dynamic_radius == dr_config.ripup_radius + stagnation_counter \div 5
           kill_zone == {c \in GridNodes(grid) :
                            \E k \in congested_nodes :
                                /\ Abs(c.x - k.x) <= dynamic_radius
                                /\ Abs(c.y - k.y) <= dynamic_radius}
           nets_to_reroute ==
               failed
               \cup {id \in DOMAIN nets : \E c \in net_paths[id] : is_congested(g3, c)}
               \cup {id \in DOMAIN nets : net_paths[id] \cap kill_zone # {}}
       IN  IF dr.iter >= dr_config.max_iterations
           THEN /\ dr' = LoopExit(dr, "limit")
                /\ UNCHANGED <<grid, ripup_counts>>
           ELSE IF conflicts = 0
           THEN /\ dr' = LoopExit(dr, "converged")
                /\ UNCHANGED <<grid, ripup_counts>>
           ELSE IF stagnation_counter > 2 * dr_config.stagnation_threshold
           THEN /\ dr' = LoopExit(d1, "stagnated")
                /\ UNCHANGED <<grid, ripup_counts>>
           ELSE \E nets_vec \in Shuffles(nets_to_reroute) :
                   /\ grid' = g3
                   /\ ripup_counts' = [id \in DOMAIN ripup_counts |->
                                          IF id \in nets_to_reroute
                                          THEN ripup_counts[id] + 1
                                          ELSE ripup_counts[id]]
                   /\ dr' = IF nets_vec = <<>> THEN LoopExit(d2, "empty")
                            ELSE [d2 EXCEPT !.pc = "batch", !.queue = nets_vec,
                                            !.bbox = [id \in nets_to_reroute |->
                                                         BoundingBox(id)],
                                            !.head =
                                                [failed |-> {id \in dr.failed :
                                                                Len(nets[id]) >= 2},
                                                 grid_conflicts |-> total_conflicts(grid),
                                                 conflicts |-> conflicts,
                                                 nets_to_reroute |-> nets_to_reroute]]
    /\ UNCHANGED <<drRest, route_segments, net_paths, net_topologies, rn, call, heap,
                   g_score, parents, expansions, as_pc, as_result>>

\* A set as a sequence, in an order that is fixed but of no significance
RECURSIVE SetToSeq(_)
SetToSeq(S) ==
    IF S = {} THEN <<>>
    ELSE LET e == CHOOSE m \in S : TRUE IN <<e>> \o SetToSeq(S \ {e})

\* run: pin_locations of a net, keyed by grid node; a later pin of the same
\* node replaces an earlier one
pin_locations(net) ==
    LET coords == pin_coords(net)
    IN  [k \in Range(coords) |->
            get_pin_position(net[SetMax({i \in DOMAIN net : coords[i] = k})])]

\* generate_segments_from_topology: the walk from a stop point along one
\* layer to the next stop point
RECURSIVE RunEnd(_, _, _, _)
RunEnd(prev, curr, adj, stop_points) ==
    IF curr \in stop_points THEN curr
    ELSE LET onward == {n \in adj[curr] : n # prev /\ n.z = curr.z}
         IN  IF onward = {} THEN curr
             ELSE RunEnd(curr, CHOOSE n \in onward : TRUE, adj, stop_points)

\* generate_segments_from_topology.  The iteration order of its hash sets
\* decides the order of the segments and which end of a run is p1; the runs
\* are given here from their lesser end, in a fixed order.
generate_segments_from_topology(topology, pins) ==
    LET edges == UNION {UNION {{<<topology[k][i], topology[k][i + 1]>>,
                                <<topology[k][i + 1], topology[k][i]>>} :
                                  i \in {j \in 1..(Len(topology[k]) - 1) :
                                            topology[k][j] # topology[k][j + 1]}} :
                           k \in DOMAIN topology}
        nodes == {e[1] : e \in edges}
        adj == [u \in nodes |-> {e[2] : e \in {f \in edges : f[1] = u}}]
        bend(u) == LET n1 == CHOOSE n \in adj[u] : TRUE
                       n2 == CHOOSE n \in adj[u] \ {n1} : TRUE
                   IN  \/ n1.z # u.z
                       \/ n2.z # u.z
                       \/ (n1.x # n2.x /\ n1.y # n2.y)
        stop_points == {u \in nodes :
                           \/ u \in DOMAIN pins
                           \/ Cardinality(adj[u]) # 2
                           \/ bend(u)
                           \/ \E v \in adj[u] : v.z # u.z}
        lesser(a, b) == a.x < b.x \/ (a.x = b.x /\ a.y < b.y)
        runs == {<<e[1], RunEnd(e[1], e[2], adj, stop_points)>> :
                     e \in {f \in edges : f[1] \in stop_points /\ f[2].z = f[1].z}}
        wires == {Seg(to_world(converter, r[1]), to_world(converter, r[2]), r[1].z) :
                     r \in {q \in runs : lesser(q[1], q[2]) \/ <<q[2], q[1]>> \notin runs}}
        vias == {Seg(to_world(converter, u), to_world(converter, u), u.z) :
                    u \in {n \in nodes : \E v \in adj[n] : v.z > n.z}}
        stitched == {k \in DOMAIN pins : k \in nodes}
        stitches == {Seg(to_world(converter, k), pins[k], k.z) :
                        k \in {n \in stitched : to_world(converter, n) # pins[n]}}
        stubs == UNION {{Seg(pins[k], pins[k], l) : l \in 0..(k.z - 1)} : k \in stitched}
    IN  SetToSeq(wires) \o SetToSeq(vias) \o SetToSeq(stitches) \o SetToSeq(stubs)

\* run after the rip-up loop: the segments of every net with a topology
\* replace the net's route_segments unless there are none
emit_segments ==
    /\ dr.pc = "emit"
    /\ route_segments' =
          [id \in DOMAIN nets |->
              LET segments ==
                      IF net_topologies[id] # <<>>
                      THEN generate_segments_from_topology(net_topologies[id],
                                                           pin_locations(nets[id]))
                      ELSE <<>>
              IN  IF segments # <<>> THEN segments ELSE route_segments[id]]
    /\ dr' = [dr EXCEPT !.pc = "done"]
    /\ UNCHANGED <<drRest, grid, net_paths, net_topologies, ripup_counts, rn, call,
                   heap, g_score, parents, expansions, as_pc, as_result>>

----------------------------------------------------------------------------
(* The detailed router's specification: two two-pin nets of 200 nm cells   *)
(* with the pin in the middle, on a die of 3 x 2 tracks with two layers;   *)
(* or a net whose way is blocked on a die of 4 x 2 tracks with one layer.  *)

\* run: the nets in the stable order of their first pin's cell position,
\* (pos.x as i32) / 1000 in world units
net_indices ==
    SortByKey([i \in 1..Len(nets) |-> i],
              [id \in 1..Len(nets) |->
                  IF nets[id] # <<>>
                  THEN <<(positions[nets[id][1].cell].x \div 1000) \div 1000,
                         (positions[nets[id][1].cell].y \div 1000) \div 1000>>
                  ELSE <<0, 0>>])

\* global_router::run on a grid of one cell: every net of two pins or more
\* has the path of that one cell, and its guide is the cell on every layer
GlobalGuides ==
    [id \in DOMAIN nets |->
        IF Len(nets[id]) < 2 THEN {}
        ELSE {GridCoord(0, 0, z) : z \in 0..(LayerCount(db_layers) - 1)}]

\* run: batch_count and batch_size of the initial route
batch_size ==
    LET batch_count == Clamp(Len(nets) \div 1000, 8, 128)
    IN  CeilDiv(Len(nets), batch_count)

DrCell == Cell("std", 200, 200, FALSE)
DrPin(c) == Pin(c, 100, 100)

\* The cells' places: the second cell right of the first or abutting it, the
\* cells of the second net in the middle column, the upper row or across
\* both; or two cells in the way of the first net on a single layer; or, on
\* three layers, a net from an IO pin on the left edge and a net along that
\* edge
\* A die of 73 x 3 tracks with one layer, wider than a SpatialSet bin.  Blocks
\* fill the middle row but for the tracks 54, 60 and 66.  Net 1 joins the
\* cells below and above track 54, net 2 those below and above track 66;
\* nets 3 and 4 each join two pins of the cell in the middle row of track 54
\* and of track 66.  The window of a first attempt is 5 tracks wide and that
\* of a net ripped up once 6; the penalty is 20.0.
MaxWideIterations == 1

DrBlock(x, w) == <<Cell("blk", w, 200, TRUE), Pt(x, 900)>>

DrWideCells ==
    <<<<DrCell, Pt(53900, 0)>>, <<DrCell, Pt(53900, 1900)>>,
      <<DrCell, Pt(65900, 0)>>, <<DrCell, Pt(65900, 1900)>>,
      <<DrCell, Pt(53900, 900)>>, <<DrCell, Pt(65900, 900)>>,
      DrBlock(47600, 5800), DrBlock(54600, 4800),
      DrBlock(60600, 4800), DrBlock(66600, 5800)>>

DrWideDesign ==
    [die |-> [min_x |-> 0, min_y |-> 0, max_x |-> 73000, max_y |-> 3000],
     margin_base |-> 5, initial_penalty |-> 20000, max_iterations |-> MaxWideIterations,
     layers |-> <<"H">>,
     cells |-> [i \in DOMAIN DrWideCells |-> DrWideCells[i][1]],
     positions |-> [i \in DOMAIN DrWideCells |-> DrWideCells[i][2]],
     nets |-> <<<<DrPin(1), DrPin(2)>>, <<DrPin(3), DrPin(4)>>,
                <<DrPin(5), Pin(5, 50, 100)>>, <<DrPin(6), Pin(6, 50, 100)>>>>]

DrDesigns ==
    {[die |-> [min_x |-> 0, min_y |-> 0, max_x |-> 3000, max_y |-> 2000],
      margin_base |-> 20, initial_penalty |-> 1500, max_iterations |-> MaxIterations,
      layers |-> <<"H", "V">>,
      cells |-> <<DrCell, DrCell, DrCell, DrCell>>,
      positions |-> <<Pt(0, 0), p2, p3, p4>>,
      nets |-> <<<<DrPin(1), DrPin(2)>>, <<DrPin(3), DrPin(4)>>>> \o extra] :
        p2 \in {Pt(1800, 0), Pt(200, 0)},
        p3 \in {Pt(900, 0), Pt(0, 900)},
        p4 \in {Pt(900, 900), Pt(1800, 900)},
        extra \in {<<>>, <<<<Pin(1, 50, 50)>>>>}}
    \cup
    {[die |-> [min_x |-> 0, min_y |-> 0, max_x |-> 4000, max_y |-> 2000],
      margin_base |-> 20, initial_penalty |-> 1500, max_iterations |-> MaxIterations,
      layers |-> <<"H">>,
      cells |-> <<DrCell, DrCell, DrCell, DrCell>>,
      positions |-> <<Pt(0, 0), Pt(2800, 900), Pt(900, 900), Pt(1900, 0)>>,
      nets |-> <<<<DrPin(1), DrPin(2)>>, <<DrPin(3), DrPin(4)>>>>],
     [die |-> [min_x |-> 0, min_y |-> 0, max_x |-> 3000, max_y |-> 3000],
      margin_base |-> 20, initial_penalty |-> 1500, max_iterations |-> MaxIterations,
      layers |-> <<"H", "V", "H">>,
      cells |-> <<Cell("IO_VIRTUAL_CELL", 0, 0, TRUE), DrCell, DrCell, DrCell>>,
      positions |-> <<Pt(0, 0), Pt(1800, 900), Pt(0, 0), Pt(0, 1900)>>,
      nets |-> <<<<Pin(1, 0, 1000), DrPin(2)>>, <<DrPin(3), DrPin(4)>>>>],
     DrWideDesign}

DrInit ==
    /\ LegIdle
    /\ NesIdle
    /\ ver_result = VerNone
    /\ \E d \in DrDesigns :
       \E capacity \in {1, 2}, max_iterations \in 0..d.max_iterations,
          stagnation_threshold \in {0, 1} :
        /\ die_area = d.die
        /\ cells = d.cells
        /\ positions = d.positions
        /\ nets = d.nets
        /\ db_layers = d.layers
        /\ dr_config = [max_iterations |-> max_iterations,
                        history_increment |-> 20,
                        initial_penalty |-> d.initial_penalty,
                        penalty_multiplier |-> 20,
                        capacity |-> capacity,
                        astar_heuristic_weight |-> 50,
                        astar_window_margin_base |-> d.margin_base,
                        astar_window_margin_max |-> 200,
                        stagnation_threshold |-> stagnation_threshold,
                        ripup_radius |-> 1]
    /\ guides = GlobalGuides
    /\ grid = [DenseGridNew(grid_w, grid_h, LayerCount(db_layers), dr_config.capacity)
                  EXCEPT !.obstacles = CellObstacles]
    /\ route_segments = [id \in DOMAIN nets |-> <<>>]
    /\ net_paths = [id \in DOMAIN nets |-> {}]
    /\ net_topologies = [id \in DOMAIN nets |-> <<>>]
    /\ ripup_counts = [id \in DOMAIN nets |-> 0]
    /\ dr = [pc |-> "batch", phase |-> "initial", queue |-> net_indices,
             batch_size |-> batch_size, b_idx |-> 0, batch |-> <<>>, results |-> <<>>,
             batch_grid |-> grid, bbox |-> <<>>, failed |-> {},
             head |-> [failed |-> {}, grid_conflicts |-> 0, conflicts |-> 0,
                       nets_to_reroute |-> {}],
             iter |-> 0, collision_penalty |-> 0, last_conflicts |-> -1,
             stagnation_counter |-> 0, crossings |-> <<>>, decays |-> <<>>,
             exit |-> "none"]
    /\ rn = RnIdle
    /\ ver_runs = <<>>
    /\ FlowIdle
    /\ WlIdle
    /\ GrIdle
    /\ SolverIdle
    /\ OracleIdle
    /\ SpatialIdle
    /\ ExtractIdle
    /\ ChkIdle
    /\ call = [starts |-> <<>>]
    /\ heap = {}
    /\ g_score = <<>>
    /\ parents = <<>>
    /\ expansions = 0
    /\ as_pc = "idle"
    /\ as_result = FindPending

DrNext ==
    \/ next_batch
    \/ route_next_net
    \/ find_path_enter
    \/ find_path_pop
    \/ find_path_exhausted
    \/ route_net_dr_pure
    \/ apply_batch
    \/ ripup_iteration
    \/ emit_segments

SpecDetailedRouter == DrInit /\ [][DrNext]_vars

----------------------------------------------------------------------------
(* Claims about the detailed router                                        *)

\* The segments of a net reach every pin on layer 0 and hang together
NetConnected(id) ==
    LET segments == route_segments[id]
    IN  /\ \A k \in DOMAIN nets[id] : PinSegments(id, nets[id][k]) # {}
        /\ \A i \in DOMAIN segments :
              Visited(segments, {i}, Len(segments)) = DOMAIN segments

\* C2: when run has returned, no two segments of different nets intersect
C2_NoShorts ==
    dr.pc = "done" =>
        \A a \in SegIds, b \in SegIds :
            a[1] # b[1] => ~intersects(SegAt(a), SegAt(b))

\* C3: when run has returned, the segments of every net of two pins or more
\* that was routed are connected and reach every pin on layer 0
C3_Connected ==
    dr.pc = "done" =>
        \A id \in DOMAIN nets :
            (Len(nets[id]) >= 2 /\ net_paths[id] # {}) => NetConnected(id)

-----------------------------------------------------------------------------
\* Weighted-average wirelength: placer/src/physics/wirelength.rs.
\* An f64 is a number in thousandths, a NaN or an infinity of either sign.

Num(v) == [k |-> "num", v |-> v]
NaN    == [k |-> "nan", v |-> 0]
Inf(s) == [k |-> "inf", v |-> s]

FNeg(a) == [a EXCEPT !.v = -a.v]

FAdd(a, b) ==
    IF a.k = "nan" \/ b.k = "nan" THEN NaN
    ELSE IF a.k = "num" /\ b.k = "num" THEN Num(a.v + b.v)
    ELSE IF a.k = "inf" /\ b.k = "inf" THEN (IF a.v = b.v THEN a ELSE NaN)
    ELSE IF a.k = "inf" THEN a ELSE b

FSub(a, b) == FAdd(a, FNeg(b))

FMul(a, b) ==
    IF a.k = "nan" \/ b.k = "nan" THEN NaN
    ELSE IF a.k = "num" /\ b.k = "num" THEN Num(RoundDiv(a.v * b.v, Milli))
    ELSE IF a.v = 0 \/ b.v = 0 THEN NaN
    ELSE Inf(Sign(a.v) * Sign(b.v))

\* The zeros of the inputs are positive zeros
FDiv(a, b) ==
    IF a.k = "nan" \/ b.k = "nan" THEN NaN
    ELSE IF a.k = "inf" /\ b.k = "inf" THEN NaN
    ELSE IF b.k = "inf" THEN Num(0)
    ELSE IF a.k = "inf" THEN Inf(IF b.v < 0 THEN -a.v ELSE a.v)
    ELSE IF b.v = 0 THEN (IF a.v = 0 THEN NaN ELSE Inf(Sign(a.v)))
    ELSE Num(Sign(b.v) * RoundDiv(a.v * Milli, Abs(b.v)))

\* e^-n and e^n in thousandths, for whole n
ExpDown == <<368, 135, 50, 18, 7, 2, 1>>
ExpUp   == <<2718, 7389, 20086, 54598, 148413, 403429, 1096633, 2980958>>

\* f64::exp, exact at the whole exponents the inputs produce
FExp(a) ==
    IF a.k = "nan" THEN NaN
    ELSE IF a.k = "inf" THEN (IF a.v > 0 THEN a ELSE Num(0))
    ELSE LET n == RoundDiv(a.v, Milli) IN
         IF n = 0 THEN Num(Milli)
         ELSE IF n < 0 THEN (IF -n > Len(ExpDown) THEN Num(0) ELSE Num(ExpDown[-n]))
         ELSE IF n > Len(ExpUp) THEN Inf(1) ELSE Num(ExpUp[n])

\* The left-to-right sum of a += term over a sequence of terms
RECURSIVE FSum(_)
FSum(s) ==
    IF s = <<>> THEN Num(0) ELSE FAdd(FSum(SubSeq(s, 1, Len(s) - 1)), s[Len(s)])

PinCoord(pin, axis) ==
    Num(Milli * (IF axis = "x" THEN PinX(pin, positions) ELSE PinY(pin, positions)))

\* max_x, min_x, max_y, min_y of a net
NetBound(net, axis, side) ==
    LET cs == {PinCoord(net[i], axis).v : i \in DOMAIN net} IN
    Num(IF side = "pos" THEN SetMax(cs) ELSE SetMin(cs))

\* exp_x_pos, exp_x_neg, exp_y_pos, exp_y_neg of a pin
ExpTerm(pin, net, axis, side, inv_gamma) ==
    FExp(FMul(IF side = "pos"
              THEN FSub(PinCoord(pin, axis), NetBound(net, axis, side))
              ELSE FSub(NetBound(net, axis, side), PinCoord(pin, axis)),
              inv_gamma))

sum_exp(net, axis, side, inv_gamma) ==
    FSum([i \in DOMAIN net |-> ExpTerm(net[i], net, axis, side, inv_gamma)])

sum_x_exp(net, axis, side, inv_gamma) ==
    FSum([i \in DOMAIN net |->
            FMul(PinCoord(net[i], axis), ExpTerm(net[i], net, axis, side, inv_gamma))])

wa(net, axis, side, inv_gamma) ==
    FDiv(sum_x_exp(net, axis, side, inv_gamma), sum_exp(net, axis, side, inv_gamma))

net_wl(net, inv_gamma) ==
    FAdd(FSub(wa(net, "x", "pos", inv_gamma), wa(net, "x", "neg", inv_gamma)),
         FSub(wa(net, "y", "pos", inv_gamma), wa(net, "y", "neg", inv_gamma)))

\* grad_x and grad_y of a pin
grad(pin, net, axis, inv_gamma) ==
    LET pos  == PinCoord(pin, axis)
        up   == FMul(FAdd(Num(Milli),
                          FMul(FSub(pos, wa(net, axis, "pos", inv_gamma)), inv_gamma)),
                     ExpTerm(pin, net, axis, "pos", inv_gamma))
        down == FMul(FSub(Num(Milli),
                          FMul(FSub(pos, wa(net, axis, "neg", inv_gamma)), inv_gamma)),
                     ExpTerm(pin, net, axis, "neg", inv_gamma))
    IN FSub(FDiv(up, sum_exp(net, axis, "pos", inv_gamma)),
            FDiv(down, sum_exp(net, axis, "neg", inv_gamma)))

\* The nets the loop does not skip
WaNets == {n \in DOMAIN nets : Len(nets[n]) >= 2}

\* The terms added to one cell's gradient, in net and pin order; net.weight is 1.0
GradTerms(c, axis, inv_gamma) ==
    LET RECURSIVE OfPins(_, _), OfNets(_)
        OfPins(n, i) ==
            IF i > Len(nets[n]) THEN <<>>
            ELSE (IF nets[n][i].cell = c
                  THEN <<grad(nets[n][i], nets[n], axis, inv_gamma)>> ELSE <<>>)
                 \o OfPins(n, i + 1)
        OfNets(n) ==
            IF n > Len(nets) THEN <<>>
            ELSE (IF n \in WaNets THEN OfPins(n, 1) ELSE <<>>) \o OfNets(n + 1)
    IN OfNets(1)

WaSides == {"x", "y"} \X {"pos", "neg"}

compute_wa_gradient ==
    /\ wl.pc = "ready"
    /\ LET inv_gamma == FDiv(Num(Milli), Num(wl.gamma)) IN
       wl' = [pc        |-> "done",
              gamma     |-> wl.gamma,
              sums      |-> [n \in WaNets |->
                               [s \in WaSides |-> sum_exp(nets[n], s[1], s[2], inv_gamma)]],
              avgs      |-> [n \in WaNets |->
                               [s \in WaSides |-> wa(nets[n], s[1], s[2], inv_gamma)]],
              total_wl  |-> FSum([n \in DOMAIN nets |->
                                    IF n \in WaNets THEN net_wl(nets[n], inv_gamma)
                                    ELSE Num(0)]),
              gradients |-> [c \in DOMAIN cells |->
                               [x |-> FSum(GradTerms(c, "x", inv_gamma)),
                                y |-> FSum(GradTerms(c, "y", inv_gamma))]]]
    /\ UNCHANGED <<dbVars, positions, legVars, nesVars, verVars, asVars, drVars, flow, gr,
                   solver, oracle, spatial, extract, chk>>

\* wa_gamma in thousandths: the default 4.0, smaller values, and 0.0, which the
\* configuration accepts
WaGammas == {0, 1000, 2000, 4000}

WaCoords == {0, 4, 8}

\* Three movable cells; one net of two pins, or one of three pins and one of one
WaNetChoices ==
    { << <<Pin(1, 0, 0), Pin(2, 0, 0)>> >>,
      << <<Pin(1, 0, 0), Pin(2, 0, 0), Pin(3, 0, 0)>>, <<Pin(3, 0, 0)>> >>,
      << <<Pin(3, 0, 0)>>, <<Pin(2, 0, 0), Pin(3, 0, 0)>> >> }

WlInit ==
    \E g \in WaGammas, ns \in WaNetChoices,
       xs \in [1..3 -> WaCoords], ys \in [1..3 -> {0, 4}] :
        /\ die_area = [min_x |-> 0, min_y |-> 0, max_x |-> 9, max_y |-> 9]
        /\ cells = [i \in 1..3 |-> Cell("std", 1, 1, FALSE)]
        /\ positions = [i \in 1..3 |-> Pt(xs[i], ys[i])]
        /\ nets = ns
        /\ LegIdle
        /\ NesIdle
        /\ VerIdle
        /\ AStarIdle
        /\ DrIdle
        /\ FlowIdle
        /\ GrIdle
        /\ SolverIdle
        /\ OracleIdle
        /\ SpatialIdle
        /\ ExtractIdle
        /\ ChkIdle
        /\ wl = [pc |-> "ready", gamma |-> g]

WlNext == compute_wa_gradient

SpecWirelength == WlInit /\ [][WlNext]_vars

\* C18: after compute_wa_gradient, for every net of at least two pins the four
\* normalising sums are numbers of at least 1 and the four weighted averages
\* are finite numbers.
C18_SumsAtLeastOneAndFinite ==
    wl.pc = "done" =>
        \A n \in WaNets : \A s \in WaSides :
            /\ wl.sums[n][s].k = "num"
            /\ wl.sums[n][s].v >= Milli
            /\ wl.avgs[n][s].k = "num"

-----------------------------------------------------------------------------
\* The global router: router/src/global_router.rs.  gr holds run's locals:
\* the configuration, net_paths (the waypoints of every net, in order), the
\* nets still to route in the chunk or the rip-up pass at hand, the results
\* a parallel chunk has collected, and the locals of compute_net_path_gr.

grRest == <<dbVars, positions, legVars, nesVars, verVars, db_layers, dr_config,
            net_paths, net_topologies, ripup_counts, dr, rn, flow, wl, solver, oracle, spatial, extract, chk>>

\* run: batch_size, and the number of ripped nets from which a rip-up pass
\* reroutes in parallel chunks
GR_BATCH_SIZE == 500

gr_converter ==
    GridConverterNew(die_w, die_h, gr.config.gcell_size, gr.config.gcell_size)

\* grid.add_wire and grid.remove_wire for every waypoint of a path, one by one
RECURSIVE AddPath(_, _)
AddPath(g, path) ==
    IF path = <<>> THEN g ELSE AddPath(add_wire(g, {Head(path)}), Tail(path))

RECURSIVE RemovePath(_, _)
RemovePath(g, path) ==
    IF path = <<>> THEN g ELSE RemovePath(remove_wire(g, {Head(path)}), Tail(path))

GrNetIdle == [active |-> FALSE]

\* compute_net_path_gr up to its loop over the targets
GrNetEnter(net_id) ==
    LET coords == [i \in DOMAIN nets[net_id] |->
                      to_grid(gr_converter, get_pin_position(nets[net_id][i]), 0)]
    IN  [active |-> TRUE, net_id |-> net_id, pin_coords |-> coords,
         sorted_indices |-> sorted_indices(coords), i |-> 2,
         full_path |-> <<>>, curr |-> coords[1]]

\* The arguments of compute_net_path_gr's find_path call for the target at hand
GrFindPathCall(r) ==
    [starts |-> <<r.curr>>,
     end |-> r.pin_coords[r.sorted_indices[r.i]],
     collision_penalty |-> gr.collision_penalty,
     heuristic_weight |-> gr.config.heuristic_weight,
     base_margin |-> gr.config.margin,
     margin_multiplier |-> Tenths,
     guide |-> NoGuide,
     strict_mode |-> FALSE,
     allowed_pins |-> {},
     max_expansions |-> 500000]

\* A parallel chunk applied while its nets are still being routed
CollectResultApplied(d, g, net_id, path) ==
    [gr |-> [d EXCEPT !.results = Append(@, <<net_id, path>>), !.queue = Tail(@),
                      !.net = GrNetIdle,
                      !.pc = IF Tail(d.queue) = <<>> THEN "apply" ELSE "route"],
     grid |-> AddPath(g, path)]

\* run, parallel chunk: the closure returns (net_id, path) and collect keeps
\* it; the grid is only read
CollectResult(d, g, net_id, path) ==
    [gr |-> [d EXCEPT !.results = Append(@, <<net_id, path>>), !.queue = Tail(@),
                      !.net = GrNetIdle,
                      !.pc = IF Tail(d.queue) = <<>> THEN "apply" ELSE "route"],
     grid |-> g]

\* run after a rip-up pass: the loop ends, or the next iteration follows
\* under a greater penalty
GrIterationEnd(d) ==
    IF d.iter > 100 /\ d.ripped < 50 THEN [d EXCEPT !.pc = "guides"]
    ELSE [d EXCEPT !.pc = "loop", !.iter = @ + 1,
                   !.collision_penalty = (@ * d.config.penalty_multiplier) \div Tenths]

\* run, sequential rip-up pass: the path is added to the grid and stored at once
StoreSequential(d, g, net_id, path) ==
    LET d1 == [d EXCEPT !.net_paths[net_id] = path, !.queue = Tail(@),
                        !.net = GrNetIdle]
    IN  [gr |-> IF d1.queue = <<>> THEN GrIterationEnd(d1) ELSE d1,
         grid |-> AddPath(g, path)]

\* What run does with the path of a net
GrStore(d, g, net_id, path) ==
    IF d.parallel THEN CollectResult(d, g, net_id, path)
    ELSE StoreSequential(d, g, net_id, path)

\* run takes the next net of the chunk or of the sequential pass; a net of
\* fewer than two pins of the initial route has the empty path
gr_route_next ==
    /\ gr.pc = "route"
    /\ ~gr.net.active
    /\ gr.queue # <<>>
    /\ LET net_id == Head(gr.queue)
       IN  IF gr.phase = "initial" /\ Len(nets[net_id]) < 2
           THEN LET s == GrStore(gr, grid, net_id, <<>>)
                IN  /\ gr' = s.gr
                    /\ grid' = s.grid
                    /\ UNCHANGED <<call, as_pc>>
           ELSE LET r == GrNetEnter(net_id)
                IN  /\ gr' = [gr EXCEPT !.net = r]
                    /\ call' = GrFindPathCall(r)
                    /\ as_pc' = "call"
                    /\ UNCHANGED grid
    /\ UNCHANGED <<grRest, guides, heap, g_score, parents, expansions, as_result>>

\* compute_net_path_gr after find_path returns: a path found is appended
\* (without its first node when it is not the first) and the next target is
\* routed from its end; after the last target run has the net's path
compute_net_path_gr ==
    /\ gr.pc = "route"
    /\ gr.net.active
    /\ as_pc = "done"
    /\ LET r == gr.net
           path == as_result.path
           r1 == IF as_result.kind = "Some"
                 THEN [r EXCEPT !.full_path = IF @ # <<>> THEN @ \o Tail(path) ELSE path,
                                !.curr = r.pin_coords[r.sorted_indices[r.i]],
                                !.i = @ + 1]
                 ELSE [r EXCEPT !.i = @ + 1]
       IN  IF r1.i <= Len(r1.sorted_indices)
           THEN /\ gr' = [gr EXCEPT !.net = r1]
                /\ call' = GrFindPathCall(r1)
                /\ as_pc' = "call"
                /\ UNCHANGED grid
           ELSE LET s == GrStore(gr, grid, r1.net_id, r1.full_path)
                IN  /\ gr' = s.gr
                    /\ grid' = s.grid
                    /\ as_pc' = "idle"
                    /\ UNCHANGED call
    /\ UNCHANGED <<grRest, guides, heap, g_score, parents, expansions, as_result>>

\* The results of a chunk applied in the order collect returned them
RECURSIVE ApplyResults(_, _, _)
ApplyResults(g, paths, results) ==
    IF results = <<>> THEN [grid |-> g, net_paths |-> paths]
    ELSE ApplyResults(AddPath(g, Head(results)[2]),
                      [paths EXCEPT ![Head(results)[1]] = Head(results)[2]],
                      Tail(results))

\* The chunk of at most GR_BATCH_SIZE nets at the head of a sequence, and the rest
ChunkOf(s) == SubSeq(s, 1, Min(Len(s), GR_BATCH_SIZE))
AfterChunk(s) == SubSeq(s, Min(Len(s), GR_BATCH_SIZE) + 1, Len(s))

\* run after par_iter of a chunk: the paths are added to the grid and stored;
\* the next chunk follows, or the rip-up loop, or the end of its iteration
gr_apply ==
    /\ gr.pc = "apply"
    /\ LET a == ApplyResults(grid, gr.net_paths, gr.results)
           d1 == [gr EXCEPT !.net_paths = a.net_paths, !.applied = @ \o gr.results,
                            !.results = <<>>]
       IN  /\ grid' = a.grid
           /\ gr' = IF gr.rest # <<>>
                    THEN [d1 EXCEPT !.pc = "route", !.queue = ChunkOf(gr.rest),
                                    !.rest = AfterChunk(gr.rest), !.batch_grid = a.grid]
                    ELSE IF gr.phase = "initial"
                    THEN [d1 EXCEPT !.pc = "loop", !.phase = "ripup", !.iter = 0]
                    ELSE GrIterationEnd(d1)
    /\ UNCHANGED <<grRest, guides, call, heap, g_score, parents, expansions, as_pc,
                   as_result>>

\* run, "internal" congestion: a congested waypoint that is neither the first
\* nor the last of the path
internal_congestion(g, path) ==
    \E i \in 2..(Len(path) - 1) : is_congested(g, path[i])

\* run: the nets ripped up one after the other, each against the grid the
\* nets before it have left
RECURSIVE RipUp(_, _, _, _)
RipUp(net_id, g, paths, nets_to_reroute) ==
    IF net_id > Len(nets)
    THEN [grid |-> g, net_paths |-> paths, nets_to_reroute |-> nets_to_reroute]
    ELSE IF paths[net_id] # <<>> /\ internal_congestion(g, paths[net_id])
    THEN RipUp(net_id + 1, RemovePath(g, paths[net_id]),
               [paths EXCEPT ![net_id] = <<>>], Append(nets_to_reroute, net_id))
    ELSE RipUp(net_id + 1, g, paths, nets_to_reroute)

\* One iteration of run's rip-up loop up to the reroute, or the way out of
\* the loop.  at_count keeps the nets with internal congestion on the grid
\* total_conflicts has counted.
gr_iteration ==
    /\ gr.pc = "loop"
    /\ IF gr.iter >= gr.config.max_iterations \/ total_conflicts(grid) = 0
       THEN /\ gr' = [gr EXCEPT !.pc = "guides"]
            /\ UNCHANGED grid
       ELSE LET g1 == update_history(grid, gr.config.history_increment)
                rip == RipUp(1, g1, gr.net_paths, <<>>)
                ripped == Len(rip.nets_to_reroute)
                d1 == [gr EXCEPT !.net_paths = rip.net_paths, !.ripped = ripped,
                                 !.scans = @ + 1,
                                 !.at_count =
                                     {id \in DOMAIN nets :
                                         internal_congestion(grid, gr.net_paths[id])},
                                 !.ripped_nets = Range(rip.nets_to_reroute),
                                 !.batch_grid = rip.grid]
            IN  /\ grid' = rip.grid
                /\ \E shuffled \in Shuffles(Range(rip.nets_to_reroute)) :
                      gr' = IF ripped = 0 THEN [d1 EXCEPT !.pc = "guides"]
                            ELSE IF ripped < GR_BATCH_SIZE
                            THEN [d1 EXCEPT !.pc = "route", !.parallel = FALSE,
                                            !.queue = shuffled]
                            ELSE [d1 EXCEPT !.pc = "route", !.parallel = TRUE,
                                            !.queue = ChunkOf(shuffled),
                                            !.rest = AfterChunk(shuffled)]
    /\ UNCHANGED <<grRest, guides, call, heap, g_score, parents, expansions, as_pc,
                   as_result>>

get_neighbors_2d(c, w, h) ==
    {n \in {GridCoord(c.x - 1, c.y, c.z), GridCoord(c.x + 1, c.y, c.z),
            GridCoord(c.x, c.y - 1, c.z), GridCoord(c.x, c.y + 1, c.z)} :
        n.x >= 0 /\ n.x <= w - 1 /\ n.y >= 0 /\ n.y <= h - 1}

\* run after the loop: the guide of a net is every waypoint and its
\* neighbours, on every layer
\* run: the guide of a net, every gcell of its path and the gcell's
\* neighbours on every layer
net_guide(path, w, h, layer_count) ==
    UNION {{GridCoord(n.x, n.y, z) :
               n \in {c} \cup get_neighbors_2d(c, w, h), z \in 0..(layer_count - 1)}
           : c \in Range(path)}

gr_guides ==
    /\ gr.pc = "guides"
    /\ guides' = [id \in DOMAIN nets |->
                     net_guide(gr.net_paths[id], grid.width, grid.height, grid.layers)]
    /\ gr' = [gr EXCEPT !.pc = "done"]
    /\ UNCHANGED <<grRest, grid, call, heap, g_score, parents, expansions, as_pc,
                   as_result>>

----------------------------------------------------------------------------
(* The global router's specification: 200 nm cells with the pin in the     *)
(* middle on a die of 3 x 3 gcells with two layers                          *)

\* The k-th place for a cell whose pin lies in gcell (x, y) of a 3000 x 3000
\* die; to_grid rounds to the nearest gcell
GrAt(x, y, k) == Pt(1000 * x + 200 * k, 1000 * y)

\* Two or three nets: from the left to the right column in the lower row,
\* the same again or one row higher, and a net inside one gcell or of one pin
GrDesigns ==
    {[die |-> [min_x |-> 0, min_y |-> 0, max_x |-> 3000, max_y |-> 3000],
      layers |-> ls,
      cells |-> [i \in 1..6 |-> DrCell],
      positions |-> <<GrAt(0, 0, 0), GrAt(2, 0, 0), GrAt(0, y3, 1), GrAt(2, 0, 1),
                      GrAt(1, 0, 0), p6>>,
      nets |-> <<<<DrPin(1), DrPin(2)>>, <<DrPin(3), DrPin(4)>>>> \o extra] :
        ls \in {<<>>, <<"H", "V">>},
        y3 \in {0, 1},
        p6 \in {GrAt(1, 0, 1), GrAt(1, 2, 0)},
        extra \in {<<>>, <<<<DrPin(5)>>>>, <<<<DrPin(5), DrPin(6)>>>>}}

MaxGrIterations == 2

GrInit ==
    /\ LegIdle
    /\ NesIdle
    /\ VerIdle
    /\ FlowIdle
    /\ WlIdle
    /\ SolverIdle
    /\ OracleIdle
    /\ SpatialIdle
    /\ ExtractIdle
    /\ ChkIdle
    /\ \E d \in GrDesigns, capacity \in {1, 2}, max_iterations \in 0..MaxGrIterations :
        /\ die_area = d.die
        /\ cells = d.cells
        /\ positions = d.positions
        /\ nets = d.nets
        /\ db_layers = d.layers
        /\ grid = DenseGridNew(3, 3, LayerCount(d.layers), capacity)
        /\ gr = [pc |-> "route", phase |-> "initial", parallel |-> TRUE,
                 config |-> [gcell_size |-> 3,
                             max_iterations |-> max_iterations,
                             history_increment |-> 5,
                             initial_penalty |-> 500,
                             penalty_multiplier |-> 11,
                             capacity |-> capacity,
                             heuristic_weight |-> 15,
                             margin |-> 10],
                 net_paths |-> [id \in DOMAIN d.nets |-> <<>>],
                 collision_penalty |-> 500,
                 queue |-> ChunkOf([id \in DOMAIN d.nets |-> id]),
                 rest |-> AfterChunk([id \in DOMAIN d.nets |-> id]),
                 results |-> <<>>, applied |-> <<>>,
                 iter |-> 0, ripped |-> 0, scans |-> 0,
                 at_count |-> {}, ripped_nets |-> {},
                 batch_grid |-> DenseGridNew(3, 3, LayerCount(d.layers), capacity),
                 net |-> GrNetIdle]
    /\ dr_config = [capacity |-> 0]
    /\ guides = <<>>
    /\ net_paths = <<>>
    /\ net_topologies = <<>>
    /\ ripup_counts = <<>>
    /\ dr = [pc |-> "idle"]
    /\ rn = [active |-> FALSE]
    /\ call = [starts |-> <<>>]
    /\ heap = {}
    /\ g_score = <<>>
    /\ parents = <<>>
    /\ expansions = 0
    /\ as_pc = "idle"
    /\ as_result = FindPending

\* The grid of run has no obstacle and every window reaches its end, so the
\* heap of find_path never runs empty here: find_path_exhausted has no part.
GrNext ==
    \/ gr_route_next
    \/ find_path_enter
    \/ find_path_pop
    \/ compute_net_path_gr
    \/ gr_apply
    \/ gr_iteration
    \/ gr_guides

SpecGlobalRouter == GrInit /\ [][GrNext]_vars

----------------------------------------------------------------------------
(* Claims about the global router                                          *)

\* C19: no gcell of layer 0 of the global router's grid is congested, that
\* is, counted by total_conflicts: layer 0 has a capacity no net count
\* reaches, while the other layers have config.capacity.
C19_LayerZeroNeverCongested ==
    gr.pc # "idle" =>
        /\ \A c \in DOMAIN grid.occupancy : c.z = 0 => ~is_congested(grid, c)
        /\ grid.capacity = gr.config.capacity

\* C20: in a rip-up iteration every net whose path has a congested gcell
\* strictly between its first and its last waypoint, on the grid whose
\* conflicts the iteration counted, is ripped up, and no other net is.
C20_InternalCongestionRipped ==
    gr.pc # "idle" =>
        /\ gr.at_count \subseteq gr.ripped_nets
        /\ gr.ripped_nets \subseteq gr.at_count


----------------------------------------------------------------------------
\* Parallel batches of both routers

RoutingInit == GrInit \/ DrInit

RoutingNext ==
    \/ gr_route_next
    \/ compute_net_path_gr
    \/ gr_apply
    \/ gr_iteration
    \/ gr_guides
    \/ next_batch
    \/ route_next_net
    \/ route_net_dr_pure
    \/ apply_batch
    \/ ripup_iteration
    \/ emit_segments
    \/ find_path_enter
    \/ find_path_pop
    \/ find_path_exhausted

SpecRouting == RoutingInit /\ [][RoutingNext]_vars

\* C13: while the nets of a parallel batch are being routed, in the global
\* router's chunks and in the detailed router's initial and rip-up batches,
\* the grid is the grid the batch was started with, in occupancy, history,
\* penalty and costs; wires are added only once every net has its result.
C13_GridFrozenDuringBatch ==
    /\ dr.pc = "route" => grid = dr.batch_grid
    /\ (gr.pc \in {"route", "apply"} /\ gr.parallel) => grid = gr.batch_grid

\* A rip-up batch of two nets of the detailed router, both routed and not
\* yet applied
C13_Witness ==
    /\ dr.pc = "route"
    /\ dr.phase = "ripup"
    /\ Len(dr.batch) = 2
    /\ Len(dr.results) = 2
    /\ \A i \in 1..2 : dr.results[i][2].kind = "Some"

\* C14: the new paths that two nets of one rip-up batch of the detailed
\* router receive have no grid node in common.
C14_BatchPathsDisjoint ==
    (dr.pc = "route" /\ dr.phase = "ripup") =>
        \A i, j \in DOMAIN dr.results :
            (i < j /\ dr.results[i][2].kind = "Some" /\ dr.results[j][2].kind = "Some")
                => dr.results[i][2].occupied \cap dr.results[j][2].occupied = {}

\* C16: the results of a parallel batch are applied in ascending order of net
\* id, in the detailed router and in the global router, so that no choice of
\* a run is left in the order.
C16_AppliedInNetIdOrder ==
    /\ dr.pc = "route" =>
          \A i, j \in DOMAIN dr.results : i < j => dr.results[i][1] < dr.results[j][1]
    /\ (gr.pc \in {"route", "apply"} /\ gr.parallel) =>
          \A i, j \in DOMAIN gr.results : i < j => gr.results[i][1] < gr.results[j][1]


----------------------------------------------------------------------------
\* Costs read by find_path

\* The cost the cache of a node should hold under the penalty the router
\* hands to find_path
CurrentCost(c) ==
    update_cache_at([grid EXCEPT !.current_penalty = call.collision_penalty], c)

\* The nodes whose cost the running find_path has read and used: every node
\* that was given a parent, the end excepted, whose cost is taken as 0
CostRead == {c \in DOMAIN parents : parents[c] # NoParent /\ c # call.end}

\* C21: every cached cost that find_path has read equals 1 + 0.1 * history
\* plus the congestion term of the node's occupancy and capacity under the
\* router's current collision penalty.
C21_CachedCostCurrent ==
    (as_pc = "loop" /\ (gr.pc = "route" \/ dr.pc = "route")) =>
        \A c \in CostRead : grid.cost_cache[c] = CurrentCost(c)

\* A step of one layer against the layer's direction
wrong_direction(position, neighbor) ==
    /\ position.z = neighbor.z
    /\ position.z < Len(db_layers)
    /\ \/ db_layers[position.z + 1] = "V" /\ position.x # neighbor.x
       \/ db_layers[position.z + 1] = "H" /\ position.y # neighbor.y

\* The steps the next turn of find_path's loop can take
NextSteps ==
    {<<top.index, q>> : top \in HeapTops(heap), q \in GridNodes(grid)} \cap
    {s \in GridNodes(grid) \X GridNodes(grid) :
        s[2] \in neighbors(s[1]) /\ passes_filters(s[2])}

\* C22: in units of 1/100, a layer change costs 1000, or 100 when one of its
\* ends is on layer 0; a step against the direction of its layer costs 2500,
\* or twice the base cost within distance 1 of the target.  The 1000 added
\* to a step that stays on layer 0 is left aside.
C22_StepCosts ==
    as_pc = "loop" =>
        \A s \in NextSteps :
            LET position == s[1]
                neighbor == s[2]
                extra == IF position.z = 0 /\ neighbor.z = 0 THEN 1000 ELSE 0
                move == step_move_cost(position, neighbor) - extra
                near == Abs(neighbor.x - call.end.x) + Abs(neighbor.y - call.end.y) <= 1
            IN  /\ position.z # neighbor.z =>
                      move = IF position.z = 0 \/ neighbor.z = 0
                             THEN base_move_cost ELSE layer_change_cost
                /\ wrong_direction(position, neighbor) =>
                      move = IF near THEN 2 * base_move_cost ELSE wrong_dir_cost


----------------------------------------------------------------------------
\* One AStar instance over several find_path calls: router/src/algo/astar.rs.
\* solver.reused is the instance the calls share; solver.fresh is an
\* instance constructed anew for every call and given the same call.  An
\* instance is its scratch arrays, indexed by the local index of the window,
\* its tag, and the locals of the running find_path: heap, expansions, and
\* the result once it has returned.

solverRest == <<dbVars, positions, legVars, nesVars, verVars, drVars, flow, wl, gr, oracle,
                spatial, extract, chk,
                db_layers, grid, heap, g_score, parents, expansions, as_pc, as_result>>

\* current_tag is a u32: TagModulus stands for 2^32
TagModulus == 4

\* AStar::new: cap, for which InitialCapacity stands
InitialCapacity == 4

\* u32::MAX in parents and i64::MAX in g_score
U32_MAX == -1
I64_MAX == -1

MaxCalls == 4

\* AStar::new
AStarNew ==
    [parents |-> [i \in 0..(InitialCapacity - 1) |-> U32_MAX],
     g_score |-> [i \in 0..(InitialCapacity - 1) |-> I64_MAX],
     visited_tag |-> [i \in 0..(InitialCapacity - 1) |-> 0],
     current_tag |-> 1,
     capacity |-> InitialCapacity,
     heap |-> {}, expansions |-> 0, status |-> "new", result |-> FindPending]

\* Vec::resize
Resize(v, len, value) ==
    [i \in 0..(len - 1) |-> IF i \in DOMAIN v THEN v[i] ELSE value]

\* AStar::ensure_capacity
ensure_capacity(S, size) ==
    IF size > S.capacity
    THEN LET capacity == Max(size, S.capacity * 2)
         IN  [S EXCEPT !.capacity = capacity,
                       !.parents = Resize(@, capacity, U32_MAX),
                       !.g_score = Resize(@, capacity, I64_MAX),
                       !.visited_tag = Resize(@, capacity, 0)]
    ELSE S

\* AStar::reset_window.  "current_tag += 1" at the greatest u32 wraps to 0 in
\* a build without overflow checks and panics in a build with them.
reset_window(S) ==
    IF S.current_tag + 1 = TagModulus
    THEN {[S EXCEPT !.visited_tag = [i \in DOMAIN @ |-> 0], !.current_tag = 1],
          [S EXCEPT !.status = "panic"]}
    ELSE {[S EXCEPT !.current_tag = @ + 1]}

\* RoutingWindow: width, height, get_local_idx, get_coord
window_width  == window.max_x - window.min_x + 1
window_height == window.max_y - window.min_y + 1

get_local_idx(c) ==
    c.z * window_width * window_height + (c.y - window.min_y) * window_width
        + (c.x - window.min_x)

get_coord(idx) ==
    LET plane_size == window_width * window_height
        rem == idx % plane_size
    IN  GridCoord((rem % window_width) + window.min_x,
                  (rem \div window_width) + window.min_y, idx \div plane_size)

\* find_path up to its main loop, on the instance S
SolverEnter(S) ==
    IF call.starts = <<>>
    THEN {[S EXCEPT !.status = "done", !.result = FindNone, !.heap = {},
                    !.expansions = 0]}
    ELSE LET S1 == ensure_capacity(S, window_width * window_height * grid.layers)
             in_window == {get_local_idx(c) :
                              c \in {s \in Range(call.starts) : contains(window, s)}}
         IN  {IF S2.status = "panic" THEN S2
              ELSE [S2 EXCEPT
                       !.g_score = [i \in DOMAIN @ |-> IF i \in in_window THEN 0 ELSE @[i]],
                       !.visited_tag = [i \in DOMAIN @ |->
                                           IF i \in in_window THEN S2.current_tag ELSE @[i]],
                       !.parents = [i \in DOMAIN @ |->
                                       IF i \in in_window THEN U32_MAX ELSE @[i]],
                       !.heap = {State(heuristic(get_coord(i), call.end,
                                                 call.heuristic_weight), 0, i) :
                                    i \in in_window},
                       !.expansions = 0, !.status = "loop", !.result = FindPending] :
              S2 \in reset_window(S1)}

\* AStar::reconstruct_path on the arrays of S: at most fuel nodes are followed
RECURSIVE SolverPathTo(_, _, _)
SolverPathTo(S, idx, fuel) ==
    IF S.parents[idx] = U32_MAX \/ fuel = 0 THEN <<get_coord(idx)>>
    ELSE Append(SolverPathTo(S, S.parents[idx], fuel - 1), get_coord(idx))

\* One turn of find_path's loop on the instance S with the popped entry top
SolverPop(S, top) ==
    LET curr_local == top.index
        position == get_coord(curr_local)
        current_g == S.g_score[curr_local]
        tentative_g(q) == current_g + total_cost(position, q)
        relaxed == {q \in neighbors(position) :
                       /\ passes_filters(q)
                       /\ \/ S.visited_tag[get_local_idx(q)] # S.current_tag
                          \/ tentative_g(q) < S.g_score[get_local_idx(q)]}
        idxs == {get_local_idx(q) : q \in relaxed}
        S1 == [S EXCEPT !.heap = @ \ {top}]
    IN  IF top.f_score >
               S.g_score[curr_local] + heuristic(position, call.end, call.heuristic_weight)
        THEN S1
        ELSE IF position = call.end
        THEN [S1 EXCEPT !.status = "done",
                        !.result = FindSome(SolverPathTo(S, curr_local, S.capacity))]
        ELSE IF S.expansions + 1 > call.max_expansions
        THEN [S1 EXCEPT !.status = "done", !.result = FindNone, !.expansions = @ + 1]
        ELSE [S1 EXCEPT
                 !.expansions = @ + 1,
                 !.parents = [i \in DOMAIN @ |-> IF i \in idxs THEN curr_local ELSE @[i]],
                 !.g_score = [i \in DOMAIN @ |->
                                 IF i \in idxs THEN tentative_g(get_coord(i)) ELSE @[i]],
                 !.visited_tag = [i \in DOMAIN @ |->
                                     IF i \in idxs THEN S.current_tag ELSE @[i]],
                 !.heap = (@ \ {top}) \cup
                     {State(tentative_g(q)
                              + heuristic(q, call.end, call.heuristic_weight),
                            tentative_g(q), get_local_idx(q)) : q \in relaxed}]

\* The turns an instance can take: a pop, or the end of the loop on an empty
\* heap, or none once find_path has returned
SolverTurns(S) ==
    IF S.status # "loop" THEN {S}
    ELSE IF S.heap = {} THEN {[S EXCEPT !.status = "done", !.result = FindNone]}
    ELSE {SolverPop(S, top) : top \in HeapTops(S.heap)}

\* The calls made on the instance: single sources and a tree, windows of
\* different shape and size
SolverCalls ==
    {[starts |-> st, end |-> e, collision_penalty |-> 1500, heuristic_weight |-> 10,
      base_margin |-> m, margin_multiplier |-> Tenths, guide |-> GridNodes(grid),
      strict_mode |-> FALSE, allowed_pins |-> {}, max_expansions |-> 300000] :
        st \in {<<GridCoord(0, 0, 0)>>, <<GridCoord(0, 1, 0), GridCoord(1, 1, 0)>>},
        e \in {GridCoord(2, 0, 0), GridCoord(0, 1, 0)},
        m \in {0, 1}}

\* A caller hands the instance to find_path
solver_call ==
    /\ solver.pc = "ready"
    /\ solver.calls < MaxCalls
    /\ \E c \in SolverCalls : call' = c
    /\ solver' = [solver EXCEPT !.pc = "enter", !.calls = @ + 1]
    /\ UNCHANGED solverRest

\* find_path up to its loop, on the shared instance and on a fresh one
solver_enter ==
    /\ solver.pc = "enter"
    /\ \E r \in SolverEnter(solver.reused), f \in SolverEnter(AStarNew) :
          solver' = [solver EXCEPT
                        !.pc = IF r.status = "panic" THEN "panic" ELSE "loop",
                        !.reused = r, !.fresh = f]
    /\ UNCHANGED <<solverRest, call>>

\* Both instances take a turn of the loop, popping the same entry where
\* their heaps allow it
solver_pop ==
    /\ solver.pc = "loop"
    /\ solver.reused.status = "loop" \/ solver.fresh.status = "loop"
    /\ \E r \in SolverTurns(solver.reused), f \in SolverTurns(solver.fresh) :
        /\ (r.heap = f.heap) \/ (solver.reused.heap # solver.fresh.heap)
           \/ (\A f2 \in SolverTurns(solver.fresh) : f2.heap # r.heap)
        /\ solver' = [solver EXCEPT !.reused = r, !.fresh = f]
    /\ UNCHANGED <<solverRest, call>>

\* find_path has returned on both instances
solver_return ==
    /\ solver.pc = "loop"
    /\ solver.reused.status = "done"
    /\ solver.fresh.status = "done"
    /\ solver' = [solver EXCEPT !.pc = "ready"]
    /\ UNCHANGED <<solverRest, call>>

SolverInit ==
    /\ DbIdle
    /\ LegIdle
    /\ NesIdle
    /\ VerIdle
    /\ DrIdle
    /\ FlowIdle
    /\ WlIdle
    /\ GrIdle
    /\ OracleIdle
    /\ SpatialIdle
    /\ ExtractIdle
    /\ ChkIdle
    /\ db_layers = <<"H">>
    /\ \E busy \in SUBSET {GridCoord(1, 0, 0), GridCoord(1, 1, 0)} :
          grid = [width |-> 3, height |-> 2, layers |-> 1, obstacles |-> {},
                  cost_cache |-> CostCacheOf([width |-> 3, height |-> 2, layers |-> 1],
                                             busy)]
    /\ call = [starts |-> <<>>]
    /\ heap = {}
    /\ g_score = <<>>
    /\ parents = <<>>
    /\ expansions = 0
    /\ as_pc = "idle"
    /\ as_result = FindPending
    /\ solver = [pc |-> "ready", calls |-> 0, reused |-> AStarNew, fresh |-> AStarNew]

SolverNext == solver_call \/ solver_enter \/ solver_pop \/ solver_return

SpecAStarReuse == SolverInit /\ [][SolverNext]_vars

\* What the running call can see of an instance: its heap, its expansions,
\* its result, and the g-score and parent of every index it takes as visited
SolverView(S) ==
    [heap |-> S.heap, expansions |-> S.expansions, status |-> S.status,
     result |-> S.result,
     visited |-> {i \in 0..(window_width * window_height * grid.layers - 1) :
                     S.visited_tag[i] = S.current_tag},
     scores |-> {<<i, S.g_score[i], S.parents[i]>> :
                    i \in {j \in 0..(window_width * window_height * grid.layers - 1) :
                              S.visited_tag[j] = S.current_tag}}]

\* The shared instance behaves in the running call as the fresh one does
C23_SameAsFreshWhileRunning ==
    solver.pc = "loop" => SolverView(solver.reused) = SolverView(solver.fresh)

\* C23: every find_path call on the shared instance comes to the result of
\* the same call on a freshly constructed instance, and all along it sees
\* only the g-scores, parents and visited marks the fresh instance sees.
C23_SameAsFresh ==
    /\ solver.pc # "panic"
    /\ C23_SameAsFreshWhileRunning


----------------------------------------------------------------------------
\* The guide oracle of the detailed router: FastGuideOracle in
\* router/src/detailed_router.rs.  oracle holds the maps of fine to coarse
\* coordinates, the marks of the coarse nodes, current_net_id and allow_all,
\* and the net it was last prepared for.

oracleRest == <<dbVars, positions, legVars, nesVars, verVars, asVars, dr_config,
                net_paths, net_topologies, ripup_counts, dr, rn, flow, wl, gr, solver,
                spatial, extract, chk>>

MaxPrepares == 3

\* The coarse grid of the global router over the die: OracleGcells gcells a side
OracleGcells == 3
oracle_coarse_converter == GridConverterNew(die_w, die_h, OracleGcells, OracleGcells)

\* FastGuideOracle::new
FastGuideOracleNew(fine_w, fine_h, coarse_w, coarse_h, layer_count, fine_conv, coarse_conv) ==
    [x_map |-> [x \in 0..(fine_w - 1) |->
                   Min(to_grid(coarse_conv, to_world(fine_conv, GridCoord(x, 0, 0)), 0).x,
                       coarse_w - 1)],
     y_map |-> [y \in 0..(fine_h - 1) |->
                   Min(to_grid(coarse_conv, to_world(fine_conv, GridCoord(0, y, 0)), 0).y,
                       coarse_h - 1)],
     grid |-> [c \in GridNodes([width |-> coarse_w, height |-> coarse_h,
                                layers |-> layer_count]) |-> 0],
     coarse_w |-> coarse_w, coarse_h |-> coarse_h,
     current_net_id |-> 0, allow_all |-> FALSE]

\* FastGuideOracle::prepare; net ids stay far below the range of a u32
prepare(o, net_id, gd) ==
    IF gd = {} THEN [o EXCEPT !.allow_all = TRUE]
    ELSE LET current_net_id == net_id + 1
             marked == {GridCoord(g.x + dx, g.y + dy, g.z) :
                           g \in gd, dx \in -1..1, dy \in -1..1}
         IN  [o EXCEPT !.allow_all = FALSE,
                       !.current_net_id = current_net_id,
                       !.grid = [c \in DOMAIN @ |->
                                    IF c \in marked THEN current_net_id ELSE @[c]]]

\* FastGuideOracle::is_in_guide
oracle_is_in_guide(o, c) ==
    \/ o.allow_all
    \/ o.grid[GridCoord(o.x_map[c.x], o.y_map[c.y], c.z)] = o.current_net_id

\* run: the oracle a worker of a batch starts with
oracle_new ==
    /\ oracle.pc = "start"
    /\ LET coarse_max == to_grid(oracle_coarse_converter, Pt(die_w, die_h), 0)
       IN  oracle' = [pc |-> "ready", prepares |-> 0, net_id |-> 0,
                      o |-> FastGuideOracleNew(grid_w, grid_h, coarse_max.x + 1,
                                               coarse_max.y + 1, grid.layers,
                                               converter, oracle_coarse_converter)]
    /\ UNCHANGED <<oracleRest, db_layers, grid, guides, call, heap, g_score, parents,
                   expansions, as_pc, as_result>>

\* run: the worker prepares its oracle for the next net it routes
oracle_prepare ==
    /\ oracle.pc = "ready"
    /\ oracle.prepares < MaxPrepares
    /\ \E net_id \in DOMAIN guides :
          oracle' = [oracle EXCEPT !.o = prepare(@, net_id - 1, guides[net_id]),
                                   !.net_id = net_id, !.prepares = @ + 1]
    /\ UNCHANGED <<oracleRest, db_layers, grid, guides, call, heap, g_score, parents,
                   expansions, as_pc, as_result>>

\* The paths the global router can have left for a net: none, one gcell, a
\* row, a corner
OraclePaths ==
    {<<>>, <<GridCoord(0, 0, 0)>>, <<GridCoord(2, 2, 0)>>,
     <<GridCoord(0, 0, 0), GridCoord(1, 0, 0), GridCoord(2, 0, 0)>>,
     <<GridCoord(0, 2, 0), GridCoord(0, 1, 0), GridCoord(0, 1, 1), GridCoord(1, 1, 1)>>}

OracleInit ==
    /\ LegIdle
    /\ NesIdle
    /\ VerIdle
    /\ call = [starts |-> <<>>]
    /\ heap = {}
    /\ g_score = <<>>
    /\ parents = <<>>
    /\ expansions = 0
    /\ as_pc = "idle"
    /\ as_result = FindPending
    /\ FlowIdle
    /\ WlIdle
    /\ GrIdle
    /\ SolverIdle
    /\ SpatialIdle
    /\ ExtractIdle
    /\ ChkIdle
    /\ die_area = [min_x |-> 0, min_y |-> 0, max_x |-> 6000, max_y |-> 6000]
    /\ cells = <<>>
    /\ positions = <<>>
    /\ nets = <<<<>>, <<>>, <<>>>>
    /\ \E ls \in {<<"H">>, <<"H", "V">>} :
        /\ db_layers = ls
        /\ grid = DenseGridNew(6, 6, LayerCount(ls), 1)
        /\ \E paths \in [1..3 -> OraclePaths] :
              guides = [id \in 1..3 |->
                           net_guide(paths[id], OracleGcells, OracleGcells,
                                     LayerCount(ls))]
    /\ dr_config = [capacity |-> 0]
    /\ net_paths = <<>>
    /\ net_topologies = <<>>
    /\ ripup_counts = <<>>
    /\ dr = [pc |-> "idle"]
    /\ rn = [active |-> FALSE]
    /\ oracle = [pc |-> "start"]

OracleNext == oracle_new \/ oracle_prepare

SpecGuideOracle == OracleInit /\ [][OracleNext]_vars

\* C24: a prepared oracle takes a fine node as in the guide exactly when the
\* coarse node it maps to is in the guide set of the net; with an empty guide
\* set every node is in the guide.
C24_OracleIsGuideSet ==
    (oracle.pc = "ready" /\ oracle.prepares > 0) =>
        \A c \in GridNodes(grid) :
            oracle_is_in_guide(oracle.o, c) <=>
                \/ guides[oracle.net_id] = {}
                \/ GridCoord(oracle.o.x_map[c.x], oracle.o.y_map[c.y], c.z)
                       \in guides[oracle.net_id]


----------------------------------------------------------------------------
\* Occupancy and stored paths

\* How often a node occurs in a sequence of waypoints
Occurrences(path, c) == Cardinality({i \in DOMAIN path : path[i] = c})

\* The wires the stored paths of the detailed router put on a node
DrStored(c) == Cardinality({id \in DOMAIN net_paths : c \in net_paths[id]})

\* The wires the stored paths of the global router put on a node
GrStored(c) == SeqSum([id \in DOMAIN gr.net_paths |-> Occurrences(gr.net_paths[id], c)])

----------------------------------------------------------------------------
\* Nets the detailed router fails to route

\* The nets of two pins or more whose latest result is None
FailedNets == {id \in dr.failed : Len(nets[id]) >= 2}

\* C26: a net of two pins or more that failed keeps no path and no topology
\* and has no wire on the grid; the rip-up iteration that follows counts it
\* as one conflict on top of the grid's and reroutes it; and when the router
\* has returned its route_segments are empty.
C26_FailedNetLeftEmpty ==
    /\ dr.pc \in {"loop", "emit", "done"} =>
          /\ \A id \in FailedNets : net_paths[id] = {} /\ net_topologies[id] = <<>>
          /\ \A c \in DOMAIN grid.occupancy :
                grid.occupancy[c] =
                    Cardinality({id \in DOMAIN nets \ FailedNets : c \in net_paths[id]})
    /\ (dr.pc \in {"batch", "route"} /\ dr.phase = "ripup") =>
          /\ dr.head.failed \subseteq dr.head.nets_to_reroute
          /\ dr.head.conflicts = dr.head.grid_conflicts + Cardinality(dr.head.failed)
    /\ dr.pc = "done" => \A id \in FailedNets : route_segments[id] = <<>>

\* The router has returned with a net that failed, was rerouted in a rip-up
\* iteration and failed again
C26_Witness ==
    /\ dr.pc = "done"
    /\ dr.head.failed # {}
    /\ \E id \in FailedNets : ripup_counts[id] >= 1


----------------------------------------------------------------------------
\* The batching loop of a rip-up iteration and its SpatialSet

spatialRest == <<dbVars, positions, legVars, nesVars, verVars, asVars, drVars, flow, wl,
                 gr, solver, oracle, extract, chk>>

\* The values of SpatialSet.current_batch, a u32, scaled
BatchModulus == 4
\* The nets marked for reroute in one iteration, at most
MaxBatchNets == 3
\* The rip-up iterations of one run, at most
MaxBatchIterations == 2

\* SpatialSet::new
SpatialSetNew(width, height, bin_size) ==
    LET w == (width + bin_size - 1) \div bin_size
        h == (height + bin_size - 1) \div bin_size
    IN  [grid |-> [i \in 0..(w * h - 1) |-> 0], w |-> w, h |-> h,
         bin_size |-> bin_size, current_batch |-> 0]

\* A reset that keeps the number of the batch
spatial_reset_kept(S) == {[status |-> "ok", set |-> S]}

\* SpatialSet::reset: the next batch number.  Beyond the last u32 the
\* addition panics in a build with overflow checks; in a build without, it
\* comes to 0, the grid is cleared and the number is 1.
spatial_reset(S) ==
    IF S.current_batch + 1 = BatchModulus
    THEN {[status |-> "ok",
           set |-> [S EXCEPT !.grid = [i \in DOMAIN S.grid |-> 0],
                             !.current_batch = 1]],
          [status |-> "panic", set |-> S]}
    ELSE {[status |-> "ok", set |-> [S EXCEPT !.current_batch = @ + 1]]}

\* SpatialSet::try_insert: the cells the two loops visit
try_insert_cells(S, bbox) ==
    LET min_x == Max(bbox[1], 0) \div S.bin_size
        max_x == Max(bbox[2], 0) \div S.bin_size
        min_y == Max(bbox[3], 0) \div S.bin_size
        max_y == Max(bbox[4], 0) \div S.bin_size
    IN  {y * S.w + x : x \in min_x..Min(max_x, S.w - 1),
                       y \in min_y..Min(max_y, S.h - 1)}

\* SpatialSet::try_insert
try_insert(S, bbox) ==
    LET bins == try_insert_cells(S, bbox)
    IN  IF \E i \in bins : S.grid[i] = S.current_batch
        THEN [ok |-> FALSE, set |-> S]
        ELSE [ok |-> TRUE,
              set |-> [S EXCEPT !.grid = [i \in DOMAIN S.grid |->
                                             IF i \in bins THEN S.current_batch
                                             ELSE S.grid[i]]]]

\* run: "for item in candidates" of one turn of the batching loop
RECURSIVE BatchRound(_, _, _, _)
BatchRound(S, candidates, batch, remaining) ==
    IF candidates = <<>> THEN [set |-> S, batch |-> batch, remaining |-> remaining]
    ELSE LET item == Head(candidates)
             r == try_insert(S, item[2])
         IN  IF r.ok
             THEN BatchRound(r.set, Tail(candidates), Append(batch, item[1]), remaining)
             ELSE BatchRound(r.set, Tail(candidates), batch, Append(remaining, item))

\* run: the bounding box of a net to reroute whose points lie between
\* (min_x, min_y) and (max_x, max_y)
CandidateBox(min_x, max_x, min_y, max_y) == <<min_x - 5, max_x + 5, min_y - 5, max_y + 5>>

\* The candidates of a rip-up iteration: the nets of nets_vec, each with the
\* bounding box of points of the grid
BatchCandidates(width, height) ==
    LET xs == {x \in {0, 66, 126} : x < width}
        ys == {y \in {0, 66} : y < height}
        boxes == {CandidateBox(e[1], e[2], e[3], e[4]) :
                     e \in {f \in xs \X xs \X ys \X ys : f[1] <= f[2] /\ f[3] <= f[4]}}
    IN  UNION {[1..n -> boxes] : n \in 1..MaxBatchNets}

\* run: a rip-up iteration has its candidates and enters the batching loop
batch_iteration ==
    /\ spatial.pc \in {"new", "formed"}
    /\ spatial.iter < MaxBatchIterations
    /\ \E bb \in BatchCandidates(spatial.width, spatial.height) :
          spatial' = [spatial EXCEPT
                         !.pc = "loop", !.iter = @ + 1,
                         !.candidates = [i \in DOMAIN bb |-> <<i - 1, bb[i]>>],
                         !.nets_vec = [i \in DOMAIN bb |-> <<i - 1, bb[i]>>],
                         !.batches = <<>>, !.firsts = <<>>]
    /\ UNCHANGED spatialRest

\* run: one turn of "while !candidates.is_empty()" up to "candidates =
\* remaining".  firsts keeps the candidate at the head of each turn.
batch_round ==
    /\ spatial.pc = "loop"
    /\ spatial.candidates # <<>>
    /\ \E rs \in spatial_reset(spatial.set) :
          IF rs.status = "panic"
          THEN spatial' = [spatial EXCEPT !.pc = "panic"]
          ELSE LET r == BatchRound(rs.set, spatial.candidates, <<>>, <<>>)
               IN  spatial' = [spatial EXCEPT
                                  !.set = r.set, !.candidates = r.remaining,
                                  !.batches = Append(@, r.batch),
                                  !.firsts = Append(@, Head(spatial.candidates)[1])]
    /\ UNCHANGED spatialRest

\* run: the batching loop has no candidate left
batch_exit ==
    /\ spatial.pc = "loop"
    /\ spatial.candidates = <<>>
    /\ spatial' = [spatial EXCEPT !.pc = "formed"]
    /\ UNCHANGED spatialRest

BatchInit ==
    /\ die_area = [min_x |-> 0, min_y |-> 0, max_x |-> 0, max_y |-> 0]
    /\ cells = <<>>
    /\ positions = <<>>
    /\ nets = <<>>
    /\ LegIdle
    /\ NesIdle
    /\ VerIdle
    /\ AStarIdle
    /\ DrIdle
    /\ FlowIdle
    /\ WlIdle
    /\ GrIdle
    /\ SolverIdle
    /\ OracleIdle
    /\ ExtractIdle
    /\ ChkIdle
    /\ \E size \in {<<180, 60>>, <<120, 120>>} :
          spatial = [pc |-> "new", width |-> size[1], height |-> size[2],
                     set |-> SpatialSetNew(size[1], size[2], SPATIAL_BIN_SIZE),
                     iter |-> 0, candidates |-> <<>>, nets_vec |-> <<>>,
                     batches |-> <<>>, firsts |-> <<>>]

BatchNext ==
    \/ batch_iteration
    \/ batch_round
    \/ batch_exit

SpecBatching == BatchInit /\ [][BatchNext]_vars

\* How often a net is in the batches formed so far
BatchCount(net_id) ==
    Cardinality({<<k, i>> \in (DOMAIN spatial.batches) \X (1..MaxBatchNets + 1) :
                    /\ i \in DOMAIN spatial.batches[k]
                    /\ spatial.batches[k][i] = net_id})

\* Up to a panic: every turn admits the candidate at its head, so the loop
\* takes no more turns than there are nets; every net marked for reroute is
\* a candidate still, with its bounding box, or in one batch; the candidates
\* keep their order; and after the loop every net is in exactly one batch
BatchesFormed ==
    spatial.pc \in {"loop", "formed"} =>
        /\ \A k \in DOMAIN spatial.batches :
              spatial.batches[k] # <<>> /\ spatial.batches[k][1] = spatial.firsts[k]
        /\ Len(spatial.batches) + Len(spatial.candidates) <= Len(spatial.nets_vec)
        /\ \A i \in DOMAIN spatial.nets_vec :
              LET item == spatial.nets_vec[i]
                  waiting == \E j \in DOMAIN spatial.candidates :
                                 spatial.candidates[j] = item
              IN  BatchCount(item[1]) = IF waiting THEN 0 ELSE 1
        /\ \A i, j \in DOMAIN spatial.candidates :
              i < j => \E a, b \in DOMAIN spatial.nets_vec :
                          /\ a < b
                          /\ spatial.nets_vec[a] = spatial.candidates[i]
                          /\ spatial.nets_vec[b] = spatial.candidates[j]
        /\ spatial.pc = "formed" =>
              \A i \in DOMAIN spatial.nets_vec : BatchCount(spatial.nets_vec[i][1]) = 1

\* C30: the batching loop of every rip-up iteration comes to its end, within
\* as many turns as there are nets, with every net marked for reroute in
\* exactly one batch; each turn admits its first candidate and carries the
\* rejected candidates over unchanged.
C30_BatchingTerminates ==
    /\ spatial.pc # "panic"
    /\ BatchesFormed


----------------------------------------------------------------------------
\* generate_segments_from_topology, step by step

extractRest == <<dbVars, positions, legVars, nesVars, verVars, asVars, drVars, flow, wl,
                 gr, solver, oracle, spatial, chk>>

\* The edges of a topology, at most
MaxTreeEdges == 4

\* The nodes of a grid of 3 x 2 tracks and two layers
ExtractNodes == {GridCoord(x, y, z) : x \in 0..2, y \in 0..1, z \in 0..1}

\* Two nodes one step of find_path apart
OneStep(a, b) == Abs(a.x - b.x) + Abs(a.y - b.y) + Abs(a.z - b.z) = 1

\* The paths of n nodes find_path can return: steps between neighbors, no
\* node twice
RECURSIVE PathsOf(_)
PathsOf(n) ==
    IF n = 1 THEN {<<c>> : c \in ExtractNodes}
    ELSE {Append(pc[1], pc[2]) :
             pc \in {qd \in PathsOf(n - 1) \X ExtractNodes :
                        /\ OneStep(qd[1][Len(qd[1])], qd[2])
                        /\ qd[2] \notin Range(qd[1])}}

\* route_net_dr_pure: the topologies of a net of two or three pins, which
\* are on layer 1: a path between two pins, and a path from a node of the
\* tree to the third pin, which is one node when the pin is on the tree
ExtractTopologies ==
    LET pin(c) == c.z = 1
        firsts == {p \in UNION {PathsOf(n) : n \in 2..(MaxTreeEdges + 1)} :
                      pin(p[1]) /\ pin(p[Len(p)])}
        later(p) == {q \in UNION {PathsOf(n) : n \in 1..(MaxTreeEdges + 2 - Len(p))} :
                        /\ q[1] \in Range(p)
                        /\ pin(q[Len(q)])
                        /\ \A i \in 2..Len(q) : q[i] \notin Range(p)}
    IN  {<<p>> : p \in firsts} \cup UNION {{<<p, q>> : q \in later(p)} : p \in firsts}

\* generate_segments_from_topology: the edges, in both directions
topology_edges(topology) ==
    UNION {UNION {{<<topology[k][i], topology[k][i + 1]>>,
                   <<topology[k][i + 1], topology[k][i]>>} :
                     i \in {j \in 1..(Len(topology[k]) - 1) :
                               topology[k][j] # topology[k][j + 1]}} :
              k \in DOMAIN topology}

\* generate_segments_from_topology: nodes and adj
topology_adj(topology) ==
    LET edges == topology_edges(topology)
    IN  [u \in {e[1] : e \in edges} |-> {e[2] : e \in {f \in edges : f[1] = u}}]

\* Stop points without the corners
stop_points_no_corner(adj, pin_nodes) ==
    {u \in DOMAIN adj :
        \/ u \in pin_nodes
        \/ Cardinality(adj[u]) # 2
        \/ \E v \in adj[u] : v.z # u.z}

\* generate_segments_from_topology: stop_points
stop_points(adj, pin_nodes) ==
    {u \in DOMAIN adj :
        \/ u \in pin_nodes
        \/ Cardinality(adj[u]) # 2
        \/ LET n1 == CHOOSE n \in adj[u] : TRUE
               n2 == CHOOSE n \in adj[u] \ {n1} : TRUE
           IN  \/ n1.z # u.z
               \/ n2.z # u.z
               \/ (n1.x # n2.x /\ n1.y # n2.y)
        \/ \E v \in adj[u] : v.z # u.z}

\* generate_segments_from_topology: edge_key and key
edge_key(a, b) ==
    IF a.x < b.x \/ (a.x = b.x /\ a.y < b.y) THEN <<a, b>> ELSE <<b, a>>

\* generate_segments_from_topology: the second walk reaches curr; if it did
\* not, its loop would have no end
RECURSIVE WalkEnds(_, _, _, _)
WalkEnds(w_prev, w_curr, curr, adj) ==
    IF w_curr = curr THEN TRUE
    ELSE LET onward == {n \in adj[w_curr] : n # w_prev /\ n.z = w_curr.z}
         IN  IF onward = {} THEN FALSE
             ELSE WalkEnds(w_curr, CHOOSE n \in onward : TRUE, curr, adj)

\* generate_segments_from_topology: the keys the second walk inserts
RECURSIVE WalkKeys(_, _, _, _)
WalkKeys(w_prev, w_curr, curr, adj) ==
    {edge_key(w_prev, w_curr)}
    \cup IF w_curr = curr THEN {}
         ELSE WalkKeys(w_curr,
                       CHOOSE n \in adj[w_curr] : n # w_prev /\ n.z = w_curr.z,
                       curr, adj)

\* generate_segments_from_topology: "for &next_node in neighbors" of one
\* start_node, the neighbors in the order given
RECURSIVE ChainsFrom(_, _, _, _)
ChainsFrom(start_node, order, E, acc) ==
    IF order = <<>> \/ acc.hang THEN acc
    ELSE LET next_node == Head(order)
             curr == RunEnd(start_node, next_node, E.adj, E.stop_points)
         IN  IF next_node.z # start_node.z
                \/ edge_key(start_node, next_node) \in acc.visited_edges
             THEN ChainsFrom(start_node, Tail(order), E, acc)
             ELSE IF ~WalkEnds(start_node, next_node, curr, E.adj)
             THEN [acc EXCEPT !.hang = TRUE]
             ELSE ChainsFrom(start_node, Tail(order), E,
                     [acc EXCEPT
                         !.visited_edges =
                             @ \cup WalkKeys(start_node, next_node, curr, E.adj),
                         !.segments =
                             Append(@, Seg(to_world(E.converter, start_node),
                                           to_world(E.converter, curr),
                                           start_node.z))])

\* generate_segments_from_topology: up to stop_points
extract_enter ==
    /\ extract.pc = "enter"
    /\ LET adj == topology_adj(extract.topology)
           stops == stop_points(adj, DOMAIN extract.pin_locations)
       IN  extract' = [extract EXCEPT !.pc = "chains", !.adj = adj,
                                      !.stop_points = stops, !.pending = stops]
    /\ UNCHANGED extractRest

\* generate_segments_from_topology: one turn of "for &start_node in
\* &stop_points"; the hash sets give the stop points and the neighbors in
\* any order
extract_chains ==
    /\ extract.pc = "chains"
    /\ \E start_node \in extract.pending :
       \E order \in Shuffles(extract.adj[start_node]) :
          LET acc == ChainsFrom(start_node, order, extract,
                                [visited_edges |-> extract.visited_edges,
                                 segments |-> extract.segments, hang |-> FALSE])
          IN  extract' = [extract EXCEPT
                             !.pc = IF acc.hang THEN "hang" ELSE "chains",
                             !.pending = @ \ {start_node},
                             !.visited_edges = acc.visited_edges,
                             !.segments = acc.segments]
    /\ UNCHANGED extractRest

\* generate_segments_from_topology: a zero-length segment for every edge to
\* the layer above.  chains keeps how many segments the chains made.
extract_vias ==
    /\ extract.pc = "chains"
    /\ extract.pending = {}
    /\ LET ups == {e \in topology_edges(extract.topology) : e[2].z > e[1].z}
           vias == [i \in 1..Cardinality(ups) |->
                       LET u == SetToSeq(ups)[i][1]
                       IN  Seg(to_world(extract.converter, u),
                               to_world(extract.converter, u), u.z)]
       IN  extract' = [extract EXCEPT !.pc = "pins",
                                      !.chains = Len(extract.segments),
                                      !.vias = Len(vias),
                                      !.segments = @ \o vias]
    /\ UNCHANGED extractRest

\* generate_segments_from_topology: the pins are joined to their nodes and
\* given a zero-length segment on every layer below
extract_pins ==
    /\ extract.pc = "pins"
    /\ LET stitched == SetToSeq(DOMAIN extract.pin_locations \cap DOMAIN extract.adj)
           of(k) == LET grid_pos == to_world(extract.converter, k)
                        exact_pos == extract.pin_locations[k]
                    IN  (IF grid_pos # exact_pos THEN <<Seg(grid_pos, exact_pos, k.z)>>
                         ELSE <<>>)
                        \o [l \in 1..k.z |-> Seg(exact_pos, exact_pos, l - 1)]
           all[i \in 0..Len(stitched)] ==
               IF i = 0 THEN <<>> ELSE all[i - 1] \o of(stitched[i])
       IN  extract' = [extract EXCEPT !.pc = "done",
                                      !.segments = @ \o all[Len(stitched)]]
    /\ UNCHANGED extractRest

ExtractInit ==
    /\ die_area = [min_x |-> 0, min_y |-> 0, max_x |-> 0, max_y |-> 0]
    /\ cells = <<>>
    /\ positions = <<>>
    /\ nets = <<>>
    /\ LegIdle
    /\ NesIdle
    /\ VerIdle
    /\ AStarIdle
    /\ DrIdle
    /\ FlowIdle
    /\ WlIdle
    /\ GrIdle
    /\ SolverIdle
    /\ OracleIdle
    /\ SpatialIdle
    /\ ChkIdle
    /\ \E topology \in ExtractTopologies, off \in {100} :
          LET conv == GridConverterNew(3000, 2000, 3, 2)
              pin_nodes == {topology[k][1] : k \in {1}}
                           \cup {topology[k][Len(topology[k])] : k \in DOMAIN topology}
          IN  extract = [pc |-> "enter", topology |-> topology, converter |-> conv,
                         pin_locations |->
                             [k \in pin_nodes |->
                                 Pt(to_world(conv, k).x + off, to_world(conv, k).y)],
                         adj |-> <<>>, stop_points |-> {}, pending |-> {},
                         visited_edges |-> {}, segments |-> <<>>,
                         chains |-> 0, vias |-> 0]

ExtractNext ==
    \/ extract_enter
    \/ extract_chains
    \/ extract_vias
    \/ extract_pins

SpecExtract == ExtractInit /\ [][ExtractNext]_vars

\* The nodes of one layer whose place is on a segment
OnSegment(seg) ==
    {u \in DOMAIN extract.adj :
        LET p == to_world(extract.converter, u)
        IN  /\ u.z = seg.layer
            /\ Min(seg.p1.x, seg.p2.x) <= p.x /\ p.x <= Max(seg.p1.x, seg.p2.x)
            /\ Min(seg.p1.y, seg.p2.y) <= p.y /\ p.y <= Max(seg.p1.y, seg.p2.y)}

\* C27: once the chains and the vias are emitted, every edge within a layer
\* lies on exactly one segment of the chains; every segment of the chains is
\* longer than zero, parallel to an axis, runs from a stop point to a stop
\* point over edges of the tree and passes no stop point; and every edge
\* from layer z to layer z + 1 has exactly one zero-length segment on layer
\* z at its lower node.
C27_SegmentsCoverTree ==
    /\ extract.pc # "hang"
    /\ extract.pc \in {"pins", "done"} =>
          LET wires == 1..extract.chains
              marks == (extract.chains + 1)..(extract.chains + extract.vias)
              seg(i) == extract.segments[i]
              at(u) == to_world(extract.converter, u)
              edges == topology_edges(extract.topology)
          IN  /\ \A e \in edges :
                    e[1].z = e[2].z =>
                        Cardinality({i \in wires : {e[1], e[2]} \subseteq OnSegment(seg(i))})
                            = 1
              /\ \A i \in wires :
                    LET on == OnSegment(seg(i))
                    IN  /\ seg(i).p1 # seg(i).p2
                        /\ seg(i).p1.x = seg(i).p2.x \/ seg(i).p1.y = seg(i).p2.y
                        /\ \E a, b \in on \cap extract.stop_points :
                              /\ at(a) = seg(i).p1
                              /\ at(b) = seg(i).p2
                              /\ on \cap extract.stop_points = {a, b}
                        /\ \A u, v \in on : OneStep(u, v) => <<u, v>> \in edges
              /\ \A e \in edges :
                    e[2].z = e[1].z + 1 =>
                        /\ Cardinality({i \in wires \cup marks :
                                           seg(i) = Seg(at(e[1]), at(e[1]), e[1].z)}) = 1
                        /\ \E i \in marks : seg(i) = Seg(at(e[1]), at(e[1]), e[1].z)

\* The extraction has made a chain over a node that is no stop point, and a
\* zero-length segment for a via
C27_Witness ==
    /\ extract.pc = "done"
    /\ extract.vias >= 1
    /\ \E i \in 1..extract.chains : Cardinality(OnSegment(extract.segments[i])) >= 3


----------------------------------------------------------------------------
\* The first-error flag of check_shorts_and_loops and check_opens

chkRest == <<dbVars, positions, legVars, nesVars, verVars, asVars, drVars, flow, wl,
             gr, solver, oracle, spatial, extract>>

\* The items of the parallel loop, chunks of a bin or nets: at most
MaxItems == 3

\* A swap that takes the flag for unset
swap_unseen(flag) == [old |-> FALSE, new |-> TRUE]

\* error_found.swap(true, Ordering::Relaxed): a read-modify-write, which
\* reads the value the flag has
swap(flag) == [old |-> flag, new |-> TRUE]

\* String::new(), and the message an item's closure formats when it detects
\* an error
NoMsg == [check |-> "", item |-> 0]
item_msg(check, i) == [check |-> check, item |-> i]

\* The closure of an item starts: error_found.load(Ordering::Relaxed).  A
\* relaxed load may still give false after another thread has set the flag.
chk_load(i) ==
    /\ chk.pc = "par_iter"
    /\ chk.at[i] = "load"
    /\ \E seen \in {chk.error_found, FALSE} :
          chk' = [chk EXCEPT !.at[i] = IF seen THEN "done" ELSE "scan"]
    /\ UNCHANGED chkRest

\* The closure of an item goes through its segments: it detects an error or
\* comes to its end
chk_scan(i) ==
    /\ chk.pc = "par_iter"
    /\ chk.at[i] = "scan"
    /\ chk' = IF i \in chk.faulty
              THEN [chk EXCEPT !.at[i] = "flip", !.detected = @ \cup {i}]
              ELSE [chk EXCEPT !.at[i] = "done"]
    /\ UNCHANGED chkRest

\* if !error_found.swap(true, Ordering::Relaxed).  swaps keeps the items in
\* the order of their swaps.
chk_swap(i) ==
    /\ chk.pc = "par_iter"
    /\ chk.at[i] = "flip"
    /\ LET r == swap(chk.error_found)
       IN  chk' = [chk EXCEPT !.error_found = r.new,
                              !.swaps = Append(@, i),
                              !.at[i] = IF ~r.old THEN "write" ELSE "done"]
    /\ UNCHANGED chkRest

\* *error_msg.lock().unwrap() = msg; return.  writes keeps the items that
\* wrote.
chk_write(i) ==
    /\ chk.pc = "par_iter"
    /\ chk.at[i] = "write"
    /\ chk' = [chk EXCEPT !.error_msg = item_msg(chk.check, i),
                          !.writes = Append(@, i),
                          !.at[i] = "done"]
    /\ UNCHANGED chkRest

\* After for_each: Err with the message when the flag is set, else Ok
chk_return ==
    /\ chk.pc = "par_iter"
    /\ \A i \in DOMAIN chk.at : chk.at[i] = "done"
    /\ chk' = [chk EXCEPT !.pc = "returned",
                          !.result = IF chk.error_found
                                     THEN [kind |-> "Err", msg |-> chk.error_msg]
                                     ELSE [kind |-> "Ok", msg |-> NoMsg]]
    /\ UNCHANGED chkRest

ChkInit ==
    /\ die_area = [min_x |-> 0, min_y |-> 0, max_x |-> 0, max_y |-> 0]
    /\ cells = <<>>
    /\ positions = <<>>
    /\ nets = <<>>
    /\ LegIdle
    /\ NesIdle
    /\ VerIdle
    /\ AStarIdle
    /\ DrIdle
    /\ FlowIdle
    /\ WlIdle
    /\ GrIdle
    /\ SolverIdle
    /\ OracleIdle
    /\ SpatialIdle
    /\ ExtractIdle
    /\ \E check \in {"check_shorts_and_loops", "check_opens"}, n \in 0..MaxItems :
       \E faulty \in SUBSET (1..n) :
          chk = [pc |-> "par_iter", check |-> check, faulty |-> faulty,
                 at |-> [i \in 1..n |-> "load"],
                 error_found |-> FALSE, error_msg |-> NoMsg,
                 detected |-> {}, swaps |-> <<>>, writes |-> <<>>,
                 result |-> [kind |-> "none", msg |-> NoMsg]]

ChkNext ==
    \/ \E i \in DOMAIN chk.at : chk_load(i)
    \/ \E i \in DOMAIN chk.at : chk_scan(i)
    \/ \E i \in DOMAIN chk.at : chk_swap(i)
    \/ \E i \in DOMAIN chk.at : chk_write(i)
    \/ chk_return

SpecFirstError == ChkInit /\ [][ChkNext]_vars

\* C28: in a check, only the item whose swap is the first writes the
\* message, it writes once and nothing is written after it; and the check
\* returns Err, with that message, exactly when some item detected an error.
C28_FirstErrorKept ==
    /\ Len(chk.writes) <= 1
    /\ \A k \in DOMAIN chk.writes : chk.swaps # <<>> /\ chk.writes[k] = chk.swaps[1]
    /\ chk.error_msg # NoMsg =>
          chk.writes # <<>> /\ chk.error_msg = item_msg(chk.check, chk.writes[1])
    /\ chk.pc = "returned" =>
          /\ chk.result.kind = "Err" <=> chk.detected # {}
          /\ chk.result.kind = "Err" =>
                chk.result.msg = item_msg(chk.check, chk.swaps[1])

\* A check has returned after two items detected an error and the second
\* found the flag set
C28_Witness ==
    /\ chk.pc = "returned"
    /\ Len(chk.swaps) >= 2
    /\ chk.result.kind = "Err"


----------------------------------------------------------------------------
\* The rip-up loop over the results rerouting can have

\* The rip-up iterations of a run, at most
MaxOutcomeIterations == 6

\* A die of 6 x 2 tracks with one layer.  Net 1 joins the ends of the lower
\* row, net 2 those of the upper row, net 3 the lower and the upper left
\* corner.
OutcomeDesign ==
    [die |-> [min_x |-> 0, min_y |-> 0, max_x |-> 6000, max_y |-> 2000],
     layers |-> <<"H">>,
     cells |-> <<DrCell, DrCell, DrCell, DrCell>>,
     positions |-> <<Pt(0, 0), Pt(4900, 0), Pt(0, 900), Pt(4900, 900)>>,
     nets |-> <<<<DrPin(1), DrPin(2)>>, <<DrPin(3), DrPin(4)>>,
                <<Pin(1, 50, 100), Pin(3, 50, 100)>>>>]

\* The nodes of a row between two columns
RowNodes(y, from, to) == {GridCoord(x, y, 0) : x \in from..to}

\* route_net_dr_pure: paths between the pins of a net, of which find_path
\* returns one: net 1 along the lower row; net 2 along the upper row, or
\* down, along the lower row and up; net 3 from corner to corner
OutcomePaths(net_id) ==
    IF net_id = 1 THEN {RowNodes(0, 0, grid.width - 1)}
    ELSE IF net_id = 2
    THEN {RowNodes(1, 0, grid.width - 1),
          RowNodes(0, 0, grid.width - 1)
              \cup {GridCoord(0, 1, 0), GridCoord(grid.width - 1, 1, 0)}}
    ELSE {{GridCoord(0, 0, 0), GridCoord(0, 1, 0)}}

\* run: the batches of a rip-up iteration, all at once: every net to reroute
\* is ripped up and has a result, which is one of the paths between its pins
reroute_outcome ==
    /\ dr.pc = "batch"
    /\ dr.phase = "ripup"
    /\ \E choice \in [Range(dr.queue) -> UNION {OutcomePaths(id) : id \in DOMAIN nets}] :
          /\ \A id \in Range(dr.queue) : choice[id] \in OutcomePaths(id)
          /\ LET a == ApplyBatch(RemoveBatch(grid, dr.queue), net_paths, net_topologies,
                                 [i \in DOMAIN dr.queue |->
                                     <<dr.queue[i], ResSome(choice[dr.queue[i]], <<>>)>>])
             IN  /\ grid' = a.grid
                 /\ net_paths' = a.net_paths
                 /\ net_topologies' = a.net_topologies
                 /\ dr' = NextAfterBatch([dr EXCEPT !.queue = <<>>, !.batch = <<>>])
    /\ UNCHANGED <<drRest, route_segments, ripup_counts, rn, call, heap, g_score,
                   parents, expansions, as_pc, as_result>>

\* run at the head of its rip-up loop, after an initial route that gave
\* every net one of its paths
OutcomeInit ==
    /\ LegIdle
    /\ NesIdle
    /\ ver_result = VerNone
    /\ die_area = OutcomeDesign.die
    /\ cells = OutcomeDesign.cells
    /\ positions = OutcomeDesign.positions
    /\ nets = OutcomeDesign.nets
    /\ db_layers = OutcomeDesign.layers
    /\ \E max_iterations \in 0..MaxOutcomeIterations, stagnation_threshold \in 0..2 :
          dr_config = [max_iterations |-> max_iterations,
                       history_increment |-> 20,
                       initial_penalty |-> 1500,
                       penalty_multiplier |-> 20,
                       capacity |-> 1,
                       astar_heuristic_weight |-> 50,
                       astar_window_margin_base |-> 20,
                       astar_window_margin_max |-> 200,
                       stagnation_threshold |-> stagnation_threshold,
                       ripup_radius |-> 1]
    /\ guides = GlobalGuides
    /\ \E second \in {RowNodes(1, 0, grid_w - 1),
                      RowNodes(0, 0, grid_w - 1)
                          \cup {GridCoord(0, 1, 0), GridCoord(grid_w - 1, 1, 0)}} :
          /\ net_paths = <<RowNodes(0, 0, grid_w - 1), second,
                           {GridCoord(0, 0, 0), GridCoord(0, 1, 0)}>>
          /\ grid = add_wire(add_wire(add_wire(
                        set_penalty([DenseGridNew(grid_w, grid_h, 1, 1)
                                        EXCEPT !.obstacles = CellObstacles], 1500),
                        net_paths[1]), net_paths[2]), net_paths[3])
    /\ route_segments = [id \in DOMAIN nets |-> <<>>]
    /\ net_topologies = [id \in DOMAIN nets |-> <<>>]
    /\ ripup_counts = [id \in DOMAIN nets |-> 0]
    /\ dr = [pc |-> "loop", phase |-> "ripup", queue |-> <<>>,
             batch_size |-> 1, b_idx |-> 0, batch |-> <<>>, results |-> <<>>,
             batch_grid |-> grid, bbox |-> <<>>, failed |-> {},
             head |-> [failed |-> {}, grid_conflicts |-> 0, conflicts |-> 0,
                       nets_to_reroute |-> {}],
             iter |-> 0, collision_penalty |-> 2500, last_conflicts |-> -1,
             stagnation_counter |-> 0, crossings |-> <<>>, decays |-> <<>>,
             exit |-> "none"]
    /\ rn = RnIdle
    /\ ver_runs = <<>>
    /\ FlowIdle
    /\ WlIdle
    /\ GrIdle
    /\ SolverIdle
    /\ OracleIdle
    /\ SpatialIdle
    /\ ExtractIdle
    /\ ChkIdle
    /\ call = [starts |-> <<>>]
    /\ heap = {}
    /\ g_score = <<>>
    /\ parents = <<>>
    /\ expansions = 0
    /\ as_pc = "idle"
    /\ as_result = FindPending

OutcomeNext ==
    \/ ripup_iteration
    \/ reroute_outcome

SpecRipupOutcomes == OutcomeInit /\ [][OutcomeNext]_vars

============================================================================
